---- MODULE Spec2Model ----
(***************************************************************************)
(* PixAI-Gen-Bot: the browser session core (src/crawler.py).               *)
(*                                                                         *)
(* SpecSession models PixaiCrawler.__aenter__ with the helpers it awaits   *)
(* (_verify_login_and_cleanup, _run_first_time_setup, _is_logged_in) and   *)
(* __aexit__.  One action is one stretch of the coroutine between two      *)
(* points at which the outcome of a driver or filesystem call is decided.  *)
(*                                                                         *)
(* Failure model of the calls the coroutine makes:                         *)
(*   - async_playwright().start(), launch_persistent_context, new_page,    *)
(*     goto and the page calls of the first-time setup may raise;          *)
(*   - context.close() closes a context that is open and returns; on a     *)
(*     context that is gone already (closed, or its driver stopped) it     *)
(*     changes nothing, whether it returns or raises into the guard the    *)
(*     source puts around it (lines 218-221);                              *)
(*   - shutil.rmtree may raise (the source guards it, lines 315-321 and    *)
(*     281-287); it is not atomic, so a failed rmtree leaves the directory *)
(*     with its cookie store either intact or already gone;                *)
(*   - Playwright.stop() ends the driver process and with it every         *)
(*     context that instance launched; it does not raise.                  *)
(*                                                                         *)
(* SpecMacro models one call of PixaiCrawler.image_gen_macro on a ready    *)
(* session: the main coroutine, the response listener, and the             *)
(* _handle_response tasks it spawns on the same event loop.  Coroutines    *)
(* interleave only at their awaits, so one action is the code between two  *)
(* awaits.  Time is counted in polls of the wait loop (one sleep of 0.5 s).*)
(***************************************************************************)
EXTENDS Integers, Sequences, FiniteSets, TLC

VARIABLES
    \* ---- session (PixaiCrawler.__aenter__ / __aexit__) ----
    pc,             \* position of the __aenter__ coroutine
    dirExists,      \* os.path.exists(self.USER_DATA_DIR)
    cookies,        \* names of the cookies stored in the profile
    ctxOpen,        \* browser contexts currently open on the profile
    pwRunning,      \* Playwright driver instances currently running
    vCtx,           \* _verify_login_and_cleanup: local `context` is not None
    vP,             \* _verify_login_and_cleanup: local `p` is not None
    outcome,        \* "none" | "returned" | "raised" | "closed"
    failReason,     \* which step made __aenter__ fail ("none" if none)
    setupInvoked,   \* _run_first_time_setup was invoked in this call
    lacking,        \* this call started on an existing profile lacking an auth cookie
    rmPaths,        \* the places of this call that have called shutil.rmtree
    rmWhileOpen,    \* some rmtree of this call ran while a context was open
    vVerdict,       \* what _verify_login_and_cleanup found: "none" | "absent" |
                    \* "valid" | "invalid" | "error"
    \* ---- image_gen_macro ----
    mpc,            \* position of the image_gen_macro coroutine
    listening,      \* response_handler is registered on self.page
    saved_urls,     \* the set saved_urls
    saved_files,    \* the list saved_files
    save_tasks,     \* the list save_tasks: one record per spawned task
    disk,           \* the paths that exist in output_dir
    polls,          \* iterations of the wait loop so far (0.5 s each)
    last_seen,      \* the poll at which last_seen was last set
    prev_count,     \* the local prev_count
    gathered,       \* the tasks handed to asyncio.gather
    result,         \* "none" | "list" | "None" | "cancelled": how the call ended
    toasts,         \* times the empty-prompt toast was seen
    resubmits,      \* times the prompt was filled and submitted again
    overwrote,      \* a handler wrote to a path that already existed
    stale,          \* tasks created before the main coroutine last resumed
    \* ---- App.run_image_macro (src/gui.py) ----
    image_paths,    \* what run_image_macro gave its caller: kind "unset" |
                    \* "list" | "None" | "raised", and the paths of a list
    \* ---- CrawlerManager (src/gui.py) ----
    thread,         \* self.thread: "none" | "alive" | "dead"
    loop,           \* self.loop: "none" | "running" | "stop_requested" | "closed"
    ready,          \* self.ready.is_set()
    start_exception,\* self.start_exception is not None
    crawler,        \* self.crawler is not None
    stop_pc,        \* position of the caller of stop(): "idle" | "waiting" |
                    \* "joining"
    shutdown,       \* the __aexit__ coroutine stop() scheduled: "none" |
                    \* "scheduled" | "stopping" | "finished"
    orphan,         \* a context launched by an earlier start() is still open
    starts,         \* calls of start() that started a thread
    \* ---- commands run through CrawlerManager ----
    commands,       \* per command: kind, caller, future, task, ops left
    cancel_requested, \* commands whose task.cancel() is queued on the loop
    browser_ops,    \* commands with an operation in flight in the browser
    \* ---- App.execute_generation_task, steps 1-3 (src/gui.py) ----
    rpc,            \* position: "start" | "compare" | "model_set" | "done" |
                    \* "failed"
    target_model_name,
    target_model_version,
    target_loras,   \* the list _parse_lora_string made of the LoRA entry
    active_config,  \* what run_get_active_config returned
    issued,         \* the configuration commands run so far, in order
    \* ---- PixaiCrawler.set_loras and its caller ----
    slpc,           \* position in set_loras and in the caller after it
    loras,          \* the argument: the desired LoRAs, name and weight
    lora_index,     \* which of them the search loop is at (from 1)
    results,        \* the raw titles of the result cards the search shows
    all_titles,     \* the list all_titles
    exact_match_index,
    best_match_index,
    highest_similarity, \* as a fraction <<numerator, denominator>>
    target_index,
    warned,         \* the warning of line 1080 was logged for this LoRA
    no_results,     \* a search of this call showed no result card
    weights_filled, \* the LoRAs (by position) whose weight field was filled
    set_loras_result, \* how set_loras ended: kind and value
    new_trigger_words, \* the local of execute_generation_task
    preset_trigger_words, \* the trigger_words of the matching model preset
    generation_submitted, \* the task's generation was submitted
    \* ---- PixaiCrawler._find_and_click_button_by_text and add_booster ----
    cpc,            \* position in the cascade and in add_booster after it
    buttons,        \* the buttons of the page whose text includes `text`
    box,            \* the first of them has a bounding box
    dialog_visible, \* the booster dialog is visible
    click_delivered, \* a click call of this cascade returned without error
    attempts,       \* the click strategies invoked so far, in order
    candidates,     \* len(candidates), or -1 before the document scan
    tried,          \* the candidates whose trial (line 442) was entered
    clicked,        \* how the cascade ended: "none" | "True" | "False" |
                    \* "raised"
    booster,        \* how add_booster ended: "none" | "added" | "raised"
    \* ---- PixaiCrawler.get_active_config ----
    gpc,            \* position in get_active_config
    cards_total,    \* the LoRA cards of the page
    cards_seen,     \* the cards the script has gone through
    model_info,     \* what the first script returned
    loras_info,     \* the list the second script builds and returns
    config,         \* the value get_active_config returned
    \* ---- App._parse_lora_string (src/gui.py) ----
    ppc,            \* "idle" | "call" | "parsed" | "applied"
    lora_str,       \* the argument, a str
    loras_with_weights, \* the list returned
    weight_fields,  \* the entries whose weight field set_loras fills
    \* ---- set_loras, lines 973-989, and remove_lora ----
    rmpc,           \* position in set_loras' first part and in remove_lora
    page_loras,     \* the names of the LoRA cards active on the page
    loras_empty,    \* `not loras` (line 982): the desired list is empty
    active_lora_names, \* what get_active_loras returned
    lora_pos,       \* which of them the loop of line 977 is at (from 1)
    tiers,          \* the click tiers remove_lora has tried in this call
    remove_raised,  \* a call of remove_lora raised (line 866)
    panel_opened,   \* the LoRA panel was opened (line 987)
    removal_result, \* how this part ended: "none" | "empty" | "panel" |
                    \* "raised"
    \* ---- set_loras, lines 1095-1163: the weights ----
    wpc,            \* position in this part of set_loras
    lora_weights,   \* lora_info.get('weight') of each desired LoRA, in order
    weight_pos,     \* which of them the loop of line 1101 is at (from 1)
    field_actions,  \* the weight-field attempts so far: LoRA, step, outcome
    weights_end,    \* how the call ended: "none" | "returned" | "raised"
    raised_at,      \* the step whose error ended the call, or "none"
    \* ---- PixaiCrawler._is_logged_in ----
    lpc,            \* "idle" | "call" | "test" | "returned" | "raised"
    context_cookies, \* the names of the cookies of page.context
    cookie_names,   \* the local cookie_names
    cookies_failed, \* page.context.cookies() raised in this call
    logged_in,      \* the value returned: "none" | "True" | "False"
    \* ---- the callers of CrawlerManager.start (src/gui.py) ----
    start_calls,    \* calls of start(headless, on_done) so far
    on_done_calls   \* invocations of an on_done callback so far

sessionVars == <<pc, dirExists, cookies, ctxOpen, pwRunning, vCtx, vP, outcome,
                 failReason, setupInvoked, lacking, rmPaths, rmWhileOpen,
                 vVerdict>>

macroVars == <<mpc, listening, saved_urls, saved_files, save_tasks, disk,
               polls, last_seen, prev_count, gathered, result, toasts,
               resubmits, overwrote, stale>>

wrapVars == <<image_paths>>

managerVars == <<thread, loop, ready, start_exception, crawler, stop_pc,
                 shutdown, orphan, starts>>

commandVars == <<commands, cancel_requested, browser_ops>>

reconcileVars == <<rpc, target_model_name, target_model_version,
                   target_loras, active_config, issued>>

setLorasVars == <<slpc, loras, lora_index, results, all_titles,
                   exact_match_index, best_match_index, highest_similarity,
                   target_index, warned, no_results, weights_filled,
                   set_loras_result, new_trigger_words,
                   preset_trigger_words, generation_submitted>>

cascadeVars == <<cpc, buttons, box, dialog_visible, click_delivered,
                 attempts, candidates,
                  tried, clicked, booster>>

configVars == <<gpc, cards_total, cards_seen, model_info, loras_info,
                 config>>

parseVars == <<ppc, lora_str, loras_with_weights, weight_fields>>

removeVars == <<rmpc, page_loras, loras_empty, active_lora_names, lora_pos,
                 tiers, remove_raised, panel_opened, removal_result>>

weightVars == <<wpc, lora_weights, weight_pos, field_actions, weights_end,
                 raised_at>>

loginVars == <<lpc, context_cookies, cookie_names, cookies_failed,
                logged_in>>

doneVars == <<start_calls, on_done_calls>>

vars == <<sessionVars, macroVars, wrapVars, managerVars, commandVars,
           reconcileVars, setLorasVars, cascadeVars, configVars, parseVars,
           removeVars, weightVars, loginVars, doneVars>>

\* What the actions of one part of the program leave alone.
otherThanSession == <<macroVars, wrapVars, managerVars, commandVars,
                       reconcileVars, setLorasVars, cascadeVars, configVars,
                       parseVars, removeVars, weightVars, loginVars,
                       doneVars>>
otherThanMacro == <<sessionVars, wrapVars, managerVars, commandVars,
                     reconcileVars, setLorasVars, cascadeVars, configVars,
                     parseVars, removeVars, weightVars, loginVars,
                     doneVars>>
otherThanCommands == <<sessionVars, macroVars, wrapVars, managerVars,
                        reconcileVars, setLorasVars, cascadeVars,
                        configVars, parseVars, removeVars, weightVars,
                        loginVars, doneVars>>
otherThanLifecycle == <<macroVars, wrapVars, commandVars, reconcileVars,
                         setLorasVars, cascadeVars, configVars, parseVars,
                         removeVars, weightVars, loginVars, doneVars>>
otherThanWrapper == <<sessionVars, macroVars, managerVars, commandVars,
                       reconcileVars, setLorasVars, cascadeVars, configVars,
                       parseVars, removeVars, weightVars, loginVars,
                       doneVars>>
otherThanReconcile == <<sessionVars, macroVars, wrapVars, managerVars,
                         commandVars, setLorasVars, cascadeVars, configVars,
                         parseVars, removeVars, weightVars, loginVars,
                         doneVars>>
otherThanSetLoras == <<sessionVars, macroVars, wrapVars, managerVars,
                        commandVars, reconcileVars, cascadeVars, configVars,
                        parseVars, removeVars, weightVars, loginVars,
                        doneVars>>
otherThanCascade == <<sessionVars, macroVars, wrapVars, managerVars,
                       commandVars, reconcileVars, setLorasVars, configVars,
                       parseVars, removeVars, weightVars, loginVars,
                       doneVars>>
otherThanConfig == <<sessionVars, macroVars, wrapVars, managerVars,
                      commandVars, reconcileVars, setLorasVars, cascadeVars,
                      parseVars, removeVars, weightVars, loginVars,
                      doneVars>>
otherThanParse == <<sessionVars, macroVars, wrapVars, managerVars,
                     commandVars, reconcileVars, setLorasVars, cascadeVars,
                     configVars, removeVars, weightVars, loginVars,
                     doneVars>>
otherThanRemove == <<sessionVars, macroVars, wrapVars, managerVars,
                      commandVars, reconcileVars, setLorasVars, cascadeVars,
                      configVars, parseVars, weightVars, loginVars,
                      doneVars>>
otherThanWeight == <<sessionVars, macroVars, wrapVars, managerVars,
                      commandVars, reconcileVars, setLorasVars, cascadeVars,
                      configVars, parseVars, removeVars, loginVars,
                      doneVars>>
otherThanLogin == <<sessionVars, macroVars, wrapVars, managerVars,
                     commandVars, reconcileVars, setLorasVars, cascadeVars,
                     configVars, parseVars, removeVars, weightVars,
                     doneVars>>
otherThanDone == <<macroVars, wrapVars, commandVars, reconcileVars,
                    setLorasVars, cascadeVars, configVars, parseVars,
                    removeVars, weightVars, loginVars>>

----------------------------------------------------------------------------
\* The two authentication cookies tested by _is_logged_in.
CookieNames == {"user_token", "user_token_expire_at"}

\* Mutant of IsLoggedIn: `or` written for `and`.
IsLoggedInEither(cs) == "user_token" \in cs \/ "user_token_expire_at" \in cs

\* Mutant of IsLoggedIn: only user_token is asked for.
IsLoggedInTokenOnly(cs) == "user_token" \in cs

\* _is_logged_in on a readable cookie store: has_token and has_expire_at.
IsLoggedIn(cs) == "user_token" \in cs /\ "user_token_expire_at" \in cs

\* The values _is_logged_in can return: the cookie test, or False when
\* page.context.cookies() raised (except branch, line 244-246).
IsLoggedInResults(cs) == {IsLoggedIn(cs), FALSE}

\* Playwright.stop() of instance pw: the driver ends, and its contexts with it.
StopPw(pw) ==
    /\ pwRunning' = pwRunning \ {pw}
    /\ ctxOpen' = ctxOpen \ {pw}

\* shutil.rmtree(self.USER_DATA_DIR) called at `place`; ok says whether it
\* returned.  A failed rmtree may already have removed the cookie store.
Rmtree(place, ok) ==
    /\ rmPaths' = rmPaths \cup {place}
    /\ rmWhileOpen' = (rmWhileOpen \/ ctxOpen # {})
    /\ IF ok
         THEN dirExists' = FALSE /\ cookies' = {}
         ELSE dirExists' = TRUE /\ cookies' \in {cookies, {}}

\* The exception leaves __aenter__: the caller sees the failure.
Raise(reason) ==
    /\ outcome' = "raised"
    /\ failReason' = IF failReason = "none" THEN reason ELSE failReason
    /\ pc' = "done"

----------------------------------------------------------------------------
(***************************************************************************)
(* image_gen_macro: data.                                                  *)
(***************************************************************************)

\* Responses the listener may be handed while it is registered.
MaxResponses == 2

\* Responses reach the wait loop during its first MaxArrivalPolls polls (they
\* may also arrive before the loop and after it, while the listener stays).
MaxArrivalPolls == 2

\* TOTAL_TIMEOUT (ms), IDLE_WAIT (3.0 s, in ms) and the sleep of one poll
\* (0.5 s, in ms).
TOTAL_TIMEOUT == 600000
IDLE_WAIT == 3000
POLL_SLEEP == 500

\* The response URLs: two distinct URLs with the same path (they differ in
\* the query string), a third with another basename, and one that
\* IMG_PATTERN does not match.
Urls == {"gi/orig/a?v=1", "gi/orig/a?v=2", "gi/orig/b", "static/x.js"}

\* self.IMG_PATTERN.match(url), line 133 and 1182.
Matches(u) == u \in {"gi/orig/a?v=1", "gi/orig/a?v=2", "gi/orig/b"}

\* Lines 1185-1190: os.path.splitext(os.path.basename(urlparse(url).path))[0];
\* the query string is not part of the path.
Basename(u) ==
    CASE u \in {"gi/orig/a?v=1", "gi/orig/a?v=2"} -> "a"
      [] u = "gi/orig/b" -> "b"
      [] OTHER -> "x"

\* A path in output_dir: <<name, 0>> is name.png, <<name, k>> is name_k.png.
\* Lines 1191-1196: the first candidate that does not exist, tried in the
\* order name.png, name_1.png, name_2.png, ...
RECURSIVE FirstFree(_, _, _)
FirstFree(name, counter, files) ==
    IF <<name, counter>> \in files
      THEN FirstFree(name, counter + 1, files)
      ELSE <<name, counter>>

\* Mutant of ShouldSave: the `url not in saved_urls` test is dropped.
ShouldSaveAnyMatch(u, seen) == Matches(u)

\* Line 1182: the condition under which _handle_response saves a response.
ShouldSave(u, seen) == Matches(u) /\ u \notin seen

\* The path of the fallback element screenshot (line 1282).
FallbackPath == <<"pixai_fallback", 0>>

\* Indices of the spawned tasks, and those that have finished.
Tasks == 1..Len(save_tasks)
Finished(t) == save_tasks[t].st \in {"saved", "failed", "skipped"}

\* No call of image_gen_macro is in progress.
MacroIdle ==
    /\ mpc = "idle"
    /\ listening = FALSE
    /\ saved_urls = {}
    /\ saved_files = <<>>
    /\ save_tasks = <<>>
    /\ disk = {}
    /\ polls = 0
    /\ last_seen = 0
    /\ prev_count = 0
    /\ gathered = {}
    /\ result = "none"
    /\ toasts = 0
    /\ resubmits = 0
    /\ overwrote = FALSE
    /\ stale = {}
    /\ image_paths = [kind |-> "unset", files |-> <<>>]

----------------------------------------------------------------------------
(***************************************************************************)
(* CrawlerManager: data.                                                   *)
(***************************************************************************)

\* Commands submitted in one run, and the browser operations (awaited page
\* calls) one command is made of.
MaxCommands == 2
OpsPerCommand == 2

\* Calls of CrawlerManager.start() that start a thread in one run.
MaxStarts == 2

Cmds == 1..MaxCommands

\* The coroutines of PixaiCrawler the manager and the App submit.
Kinds == {"get_active_config", "take_screenshot", "set_model", "set_loras",
          "add_booster", "remove_booster", "get_active_boosters",
          "image_gen_macro"}

\* The wrappers that catch the error of future.result and call
\* future.cancel() before raising it again (gui.py 110-114, 124-128, 138-142,
\* 152-156, 856-860); the booster wrappers (163, 170, 177) do not.
CancelsOnTimeout(k) ==
    k \in {"get_active_config", "take_screenshot", "set_model", "set_loras",
           "image_gen_macro"}

\* The wrappers that test self.start_exception first (103, 117, 131, 145,
\* 848).
ChecksStartException(k) ==
    k \in {"get_active_config", "take_screenshot", "set_model", "set_loras",
           "image_gen_macro"}

\* A command that has not been called.
NoCommand == [kind |-> "none", caller |-> "idle", future |-> "none",
              task |-> "none", left |-> 0]

\* No command has been called.
CommandsIdle ==
    /\ commands = [c \in Cmds |-> NoCommand]
    /\ cancel_requested = {}
    /\ browser_ops = {}

\* No generation task is running.
ReconcileIdle ==
    /\ rpc = "done"
    /\ target_model_name = ""
    /\ target_model_version = ""
    /\ target_loras = <<>>
    /\ active_config = [model_name |-> "", model_version |-> "",
                        loras |-> <<>>]
    /\ issued = <<>>

\* The initial highest_similarity -1.0 and the threshold 0.6.
MinusOne == <<0 - 1, 1>>
Threshold == <<6, 10>>

\* The values set_loras can return: the prompt text (a str, here "" or
\* "tw"), or the booleans of lines 1009, 1023 and 1026.
NoValue == [kind |-> "none", value |-> "none"]
Returned(v) == [kind |-> "returned", value |-> v]
Raised == [kind |-> "raised", value |-> "none"]
TriggerWordStrs == {"", "tw"}

\* No call of set_loras is in progress.
SetLorasIdle ==
    /\ slpc = "idle"
    /\ loras = <<>>
    /\ lora_index = 0
    /\ results = <<>>
    /\ all_titles = <<>>
    /\ exact_match_index = 0 - 1
    /\ best_match_index = 0 - 1
    /\ highest_similarity = MinusOne
    /\ target_index = 0 - 1
    /\ warned = FALSE
    /\ no_results = FALSE
    /\ weights_filled = {}
    /\ set_loras_result = NoValue
    /\ new_trigger_words = "None"
    /\ preset_trigger_words = ""
    /\ generation_submitted = FALSE

\* No call of _find_and_click_button_by_text is in progress.
CascadeIdle ==
    /\ cpc = "idle"
    /\ buttons = 0
    /\ box = FALSE
    /\ dialog_visible = FALSE
    /\ click_delivered = FALSE
    /\ attempts = <<>>
    /\ candidates = 0 - 1
    /\ tried = <<>>
    /\ clicked = "none"
    /\ booster = "none"

\* The locals and the value of get_active_config before they are set.
NoModelInfo == [header |-> "unread", model_name |-> "", model_version |-> ""]
NoConfig == [model_name |-> "", model_version |-> "", loras |-> <<>>]

\* No call of get_active_config is in progress.
ConfigIdle ==
    /\ gpc = "idle"
    /\ cards_total = 0
    /\ cards_seen = 0
    /\ model_info = NoModelInfo
    /\ loras_info = <<>>
    /\ config = NoConfig

\* No call of _parse_lora_string is in progress.
ParseIdle ==
    /\ ppc = "idle"
    /\ lora_str = <<>>
    /\ loras_with_weights = <<>>
    /\ weight_fields = {}

\* No call of set_loras is at its removal part.
RemoveIdle ==
    /\ rmpc = "idle"
    /\ page_loras = <<>>
    /\ loras_empty = TRUE
    /\ active_lora_names = <<>>
    /\ lora_pos = 0
    /\ tiers = <<>>
    /\ remove_raised = FALSE
    /\ panel_opened = FALSE
    /\ removal_result = "none"

\* No call of set_loras is at its weights part.
WeightsIdle ==
    /\ wpc = "idle"
    /\ lora_weights = <<>>
    /\ weight_pos = 0
    /\ field_actions = <<>>
    /\ weights_end = "none"
    /\ raised_at = "none"

\* No call of _is_logged_in is in progress.
LoginIdle ==
    /\ lpc = "idle"
    /\ context_cookies = {}
    /\ cookie_names = {}
    /\ cookies_failed = FALSE
    /\ logged_in = "none"

\* start() has not been called through the App's start or restart.
DoneIdle ==
    /\ start_calls = 0
    /\ on_done_calls = 0

\* CrawlerManager.__init__, lines 57-63.
ManagerIdle ==
    /\ thread = "none"
    /\ loop = "none"
    /\ ready = FALSE
    /\ start_exception = FALSE
    /\ crawler = FALSE
    /\ stop_pc = "idle"
    /\ shutdown = "none"
    /\ orphan = FALSE
    /\ starts = 0

\* start() has run and __aenter__ returned: the thread is in run_forever.
ManagerReady ==
    /\ thread = "alive"
    /\ loop = "running"
    /\ ready = TRUE
    /\ start_exception = FALSE
    /\ crawler = TRUE
    /\ stop_pc = "idle"
    /\ shutdown = "none"
    /\ orphan = FALSE
    /\ starts = 1

\* start() has run and __aenter__ raised: the thread closed its loop and
\* ended (lines 80-97).
ManagerFailed ==
    /\ thread = "dead"
    /\ loop = "closed"
    /\ ready = TRUE
    /\ start_exception = TRUE
    /\ crawler = TRUE
    /\ stop_pc = "idle"
    /\ shutdown = "none"
    /\ orphan = FALSE
    /\ starts = 1

----------------------------------------------------------------------------
\* A process starts with any profile state a previous run can have left.
InitSession ==
    /\ DoneIdle
    /\ LoginIdle
    /\ WeightsIdle
    /\ RemoveIdle
    /\ ParseIdle
    /\ ConfigIdle
    /\ CascadeIdle
    /\ SetLorasIdle
    /\ pc = "v_entry"
    /\ dirExists \in BOOLEAN
    /\ cookies \in SUBSET CookieNames
    /\ (~dirExists => cookies = {})
    /\ ctxOpen = {}
    /\ pwRunning = {}
    /\ vCtx = FALSE
    /\ vP = FALSE
    /\ outcome = "none"
    /\ failReason = "none"
    /\ setupInvoked = FALSE
    /\ lacking = (dirExists /\ ~(CookieNames \subseteq cookies))
    /\ rmPaths = {}
    /\ rmWhileOpen = FALSE
    /\ vVerdict = "none"
    /\ MacroIdle
    /\ ManagerIdle
    /\ CommandsIdle
    /\ ReconcileIdle

----------------------------------------------------------------------------
\* _verify_login_and_cleanup, line 253-254: no directory, nothing to verify.
VerifyEntry ==
    /\ pc = "v_entry"
    /\ pc' = IF dirExists THEN "v_launch" ELSE "s_check"
    /\ vVerdict' = IF dirExists THEN vVerdict ELSE "absent"
    /\ UNCHANGED <<dirExists, cookies, ctxOpen, pwRunning, vCtx, vP, outcome,
                   failReason, setupInvoked, lacking, rmPaths, rmWhileOpen>>

\* Lines 260-263: start the driver, launch the throwaway headless context,
\* open a page, navigate.  Any of the four awaits may raise.
VerifyLaunch ==
    /\ pc = "v_launch"
    /\ \/ \* async_playwright().start() raises
          /\ pc' = "v_except"
          /\ UNCHANGED <<ctxOpen, pwRunning, vCtx, vP>>
       \/ \* launch_persistent_context raises
          /\ pc' = "v_except"
          /\ pwRunning' = pwRunning \cup {"tmp"}
          /\ vP' = TRUE
          /\ UNCHANGED <<ctxOpen, vCtx>>
       \/ \* new_page or goto raises, or neither does
          /\ pc' \in {"v_except", "v_is_logged_in"}
          /\ pwRunning' = pwRunning \cup {"tmp"}
          /\ ctxOpen' = ctxOpen \cup {"tmp"}
          /\ vP' = TRUE
          /\ vCtx' = TRUE
    /\ vVerdict' = IF pc' = "v_except" THEN "error" ELSE vVerdict
    /\ UNCHANGED <<dirExists, cookies, outcome, failReason, setupInvoked,
                   lacking, rmPaths, rmWhileOpen>>

\* Line 265 and 275-276: the cookie test decides between cleanup and keep.
VerifyIsLoggedIn ==
    /\ pc = "v_is_logged_in"
    /\ \E r \in IsLoggedInResults(cookies) :
          /\ pc' = IF r THEN "v_finally" ELSE "v_inv_close"
          /\ vVerdict' = IF r THEN "valid" ELSE "invalid"
    /\ UNCHANGED <<dirExists, cookies, ctxOpen, pwRunning, vCtx, vP, outcome,
                   failReason, setupInvoked, lacking, rmPaths, rmWhileOpen>>

\* Mutant of VerifyInvalidClose: the profile is removed without closing the
\* throwaway context and stopping its driver first.
VerifyInvalidCloseSkipped ==
    /\ pc = "v_inv_close"
    /\ pc' = "v_inv_rm"
    /\ UNCHANGED <<dirExists, cookies, ctxOpen, pwRunning, vCtx, vP, outcome,
                   failReason, setupInvoked, lacking, rmPaths, rmWhileOpen, vVerdict>>

\* Lines 267-268: await context.close(); context = None.
VerifyInvalidClose ==
    /\ pc = "v_inv_close"
    /\ ctxOpen' = ctxOpen \ {"tmp"}
    /\ vCtx' = FALSE
    /\ pc' = "v_inv_stop"
    /\ UNCHANGED <<dirExists, cookies, pwRunning, vP, outcome, failReason,
                   setupInvoked, lacking, rmPaths, rmWhileOpen, vVerdict>>

\* Lines 269-270: await p.stop(); p = None.
VerifyInvalidStop ==
    /\ pc = "v_inv_stop"
    /\ StopPw("tmp")
    /\ vP' = FALSE
    /\ pc' = "v_inv_rm"
    /\ UNCHANGED <<dirExists, cookies, vCtx, outcome, failReason,
                   setupInvoked, lacking, rmPaths, rmWhileOpen, vVerdict>>

\* Lines 272-274: shutil.rmtree; a raise goes to the except branch.
VerifyInvalidRmtree ==
    /\ pc = "v_inv_rm"
    /\ \E ok \in BOOLEAN :
          /\ Rmtree("verify_invalid", ok)
          /\ pc' = IF ok THEN "v_finally" ELSE "v_except"
    /\ UNCHANGED <<ctxOpen, pwRunning, vCtx, vP, outcome, failReason,
                   setupInvoked, lacking, vVerdict>>

\* Lines 277-282: except branch; if the directory exists,
\* `if context: await context.close()`.
VerifyExceptClose ==
    /\ pc = "v_except"
    /\ IF ~dirExists
         THEN pc' = "v_finally" /\ UNCHANGED ctxOpen
         ELSE /\ ctxOpen' = IF vCtx THEN ctxOpen \ {"tmp"} ELSE ctxOpen
              /\ pc' = "v_exc_stop"
    /\ UNCHANGED <<dirExists, cookies, pwRunning, vCtx, vP, outcome, failReason,
                   setupInvoked, lacking, rmPaths, rmWhileOpen, vVerdict>>

\* Line 283: `if p: await p.stop()`.
VerifyExceptStop ==
    /\ pc = "v_exc_stop"
    /\ IF vP THEN StopPw("tmp") ELSE UNCHANGED <<pwRunning, ctxOpen>>
    /\ pc' = "v_exc_rm"
    /\ UNCHANGED <<dirExists, cookies, vCtx, vP, outcome, failReason,
                   setupInvoked, lacking, rmPaths, rmWhileOpen, vVerdict>>

\* Lines 284-287: shutil.rmtree; its failure is logged and swallowed.
VerifyExceptRmtree ==
    /\ pc = "v_exc_rm"
    /\ \E ok \in BOOLEAN : Rmtree("verify_error", ok)
    /\ pc' = "v_finally"
    /\ UNCHANGED <<ctxOpen, pwRunning, vCtx, vP, outcome, failReason,
                   setupInvoked, lacking, vVerdict>>

\* Lines 288-290: finally; `if context: await context.close()` then
\* `if p: await p.stop()`; the function returns.
VerifyFinally ==
    /\ pc = "v_finally"
    /\ ctxOpen' = (IF vCtx THEN ctxOpen \ {"tmp"} ELSE ctxOpen)
                      \ (IF vP THEN {"tmp"} ELSE {})
    /\ pwRunning' = IF vP THEN pwRunning \ {"tmp"} ELSE pwRunning
    /\ vCtx' = FALSE
    /\ vP' = FALSE
    /\ pc' = "s_check"
    /\ UNCHANGED <<dirExists, cookies, outcome, failReason, setupInvoked,
                   lacking, rmPaths, rmWhileOpen, vVerdict>>

----------------------------------------------------------------------------
\* __aenter__ lines 306-310: first-time setup iff the directory is absent.
CheckFirstTime ==
    /\ pc = "s_check"
    /\ IF dirExists
         THEN pc' = "r_start" /\ UNCHANGED setupInvoked
         ELSE pc' = "fts_launch" /\ setupInvoked' = TRUE
    /\ UNCHANGED <<dirExists, cookies, ctxOpen, pwRunning, vCtx, vP, outcome,
                   failReason, lacking, rmPaths, rmWhileOpen, vVerdict>>

\* _run_first_time_setup lines 173-189: enter `async with async_playwright()`
\* and launch the visible persistent context, which creates the directory.
SetupLaunch ==
    /\ pc = "fts_launch"
    /\ \/ \* the driver does not start: nothing was created
          /\ pc' = "s_except"
          /\ UNCHANGED <<dirExists, ctxOpen, pwRunning>>
       \/ \* launch_persistent_context raises, the directory created or not
          /\ pc' = "fts_exit_exc"
          /\ dirExists' \in BOOLEAN
          /\ pwRunning' = pwRunning \cup {"setup"}
          /\ UNCHANGED ctxOpen
       \/ /\ pc' = "fts_page"
          /\ dirExists' = TRUE
          /\ ctxOpen' = ctxOpen \cup {"setup"}
          /\ pwRunning' = pwRunning \cup {"setup"}
    /\ UNCHANGED <<cookies, vCtx, vP, outcome, failReason, setupInvoked,
                   lacking, rmPaths, rmWhileOpen, vVerdict>>

\* Lines 191-208: open the page, navigate, wait for the prompt field, read
\* and inject ss.js; any of them may raise.
SetupPage ==
    /\ pc = "fts_page"
    /\ pc' \in {"fts_wait", "fts_exit_exc"}
    /\ UNCHANGED <<dirExists, cookies, ctxOpen, pwRunning, vCtx, vP, outcome,
                   failReason, setupInvoked, lacking, rmPaths, rmWhileOpen,
                   vVerdict>>

\* The user works in the visible browser: logging in stores cookies.
UserLogin ==
    /\ pc = "fts_wait"
    /\ \E cs \in SUBSET CookieNames : cs # cookies /\ cookies' = cs
    /\ UNCHANGED <<pc, dirExists, ctxOpen, pwRunning, vCtx, vP, outcome,
                   failReason, setupInvoked, lacking, rmPaths, rmWhileOpen,
                   vVerdict>>

\* Line 209: wait_for_event("close", timeout=0) returns when the user has
\* closed the window, or raises with the context still open.
SetupWaitClose ==
    /\ pc = "fts_wait"
    /\ \/ /\ ctxOpen' = ctxOpen \ {"setup"}
          /\ pc' = "fts_exit_ok"
       \/ /\ pc' = "fts_exit_exc"
          /\ UNCHANGED ctxOpen
    /\ UNCHANGED <<dirExists, cookies, pwRunning, vCtx, vP, outcome,
                   failReason, setupInvoked, lacking, rmPaths, rmWhileOpen,
                   vVerdict>>

\* Mutant of SetupExit: the driver is left running when the block is left,
\* and the failure of context.close() in the finally clause is swallowed.
SetupExitLeavesDriver ==
    /\ pc \in {"fts_exit_ok", "fts_exit_exc"}
    /\ pc' = IF pc = "fts_exit_ok" THEN "r_start" ELSE "s_except"
    /\ UNCHANGED <<dirExists, cookies, ctxOpen, pwRunning, vCtx, vP, outcome,
                   failReason, setupInvoked, lacking, rmPaths, rmWhileOpen,
                   vVerdict>>

\* Lines 173 and 213-222: the `async with` block is left, normally or by an
\* exception, and its exit stops the driver; the finally clause then calls
\* context.close(), swallowing its error; an exception is re-raised (215).
SetupExit ==
    /\ pc \in {"fts_exit_ok", "fts_exit_exc"}
    /\ StopPw("setup")
    /\ pc' = IF pc = "fts_exit_ok" THEN "r_start" ELSE "s_except"
    /\ UNCHANGED <<dirExists, cookies, vCtx, vP, outcome, failReason,
                   setupInvoked, lacking, rmPaths, rmWhileOpen, vVerdict>>

\* __aenter__ lines 311-322: the setup raised.  If the directory exists, sleep
\* 2 s and rmtree it, logging and swallowing a failure; then raise.
SetupExcept ==
    /\ pc = "s_except"
    /\ IF dirExists
         THEN \E ok \in BOOLEAN : Rmtree("setup_failed", ok)
         ELSE UNCHANGED <<dirExists, cookies, rmPaths, rmWhileOpen>>
    /\ Raise("setup")
    /\ UNCHANGED <<ctxOpen, pwRunning, vCtx, vP, setupInvoked, lacking, vVerdict>>

----------------------------------------------------------------------------
\* Line 325: self.p = await async_playwright().start(), outside the try.
RealStart ==
    /\ pc = "r_start"
    /\ \/ /\ pwRunning' = pwRunning \cup {"real"}
          /\ pc' = "r_launch"
          /\ UNCHANGED <<outcome, failReason>>
       \/ /\ Raise("start")
          /\ UNCHANGED pwRunning
    /\ UNCHANGED <<dirExists, cookies, ctxOpen, vCtx, vP, setupInvoked,
                   lacking, rmPaths, rmWhileOpen, vVerdict>>

\* Lines 329-347: launch the real persistent context, pick a page, apply
\* stealth (never fatal), navigate.  A raise goes to the handler at 375.
RealLaunch ==
    /\ pc = "r_launch"
    /\ \/ \* launch_persistent_context raises
          /\ pc' = "r_except"
          /\ failReason' = "launch"
          /\ UNCHANGED ctxOpen
       \/ \* new_page or goto raises
          /\ pc' = "r_except"
          /\ failReason' = "launch"
          /\ ctxOpen' = ctxOpen \cup {"real"}
       \/ /\ pc' = "r_is_logged_in"
          /\ ctxOpen' = ctxOpen \cup {"real"}
          /\ UNCHANGED failReason
    /\ UNCHANGED <<dirExists, cookies, pwRunning, vCtx, vP, outcome,
                   setupInvoked, lacking, rmPaths, rmWhileOpen, vVerdict>>

\* Lines 349-352 and 360-374: the final login check; when it passes the rest
\* of __aenter__ cannot raise (zoom, daily credit and helper features catch
\* their own errors) and the crawler is returned.
RealIsLoggedIn ==
    /\ pc = "r_is_logged_in"
    /\ \E r \in IsLoggedInResults(cookies) :
          IF r THEN /\ pc' = "done"
                    /\ outcome' = "returned"
                    /\ UNCHANGED failReason
               ELSE /\ pc' = "r_fail_close"
                    /\ failReason' = "final"
                    /\ UNCHANGED outcome
    /\ UNCHANGED <<dirExists, cookies, ctxOpen, pwRunning, vCtx, vP,
                   setupInvoked, lacking, rmPaths, rmWhileOpen, vVerdict>>

\* Line 353: await self.context.close().
RealFailClose ==
    /\ pc = "r_fail_close"
    /\ ctxOpen' = ctxOpen \ {"real"}
    /\ pc' = "r_fail_stop"
    /\ UNCHANGED <<dirExists, cookies, pwRunning, vCtx, vP, outcome, failReason,
                   setupInvoked, lacking, rmPaths, rmWhileOpen, vVerdict>>

\* Line 354: await self.p.stop().
RealFailStop ==
    /\ pc = "r_fail_stop"
    /\ StopPw("real")
    /\ pc' = "r_fail_rm"
    /\ UNCHANGED <<dirExists, cookies, vCtx, vP, outcome, failReason,
                   setupInvoked, lacking, rmPaths, rmWhileOpen, vVerdict>>

\* Lines 355-358: rmtree if the directory exists, then raise; the raise, like
\* a raise of rmtree itself, goes to the handler at 375.
RealFailRmtree ==
    /\ pc = "r_fail_rm"
    /\ IF dirExists
         THEN \E ok \in BOOLEAN : Rmtree("final_failed", ok)
         ELSE UNCHANGED <<dirExists, cookies, rmPaths, rmWhileOpen>>
    /\ pc' = "r_except"
    /\ UNCHANGED <<ctxOpen, pwRunning, vCtx, vP, outcome, failReason,
                   setupInvoked, lacking, vVerdict>>

\* Lines 375-379: `if self.p: await self.p.stop()`; raise e.
RealExcept ==
    /\ pc = "r_except"
    /\ StopPw("real")
    /\ Raise("launch")
    /\ UNCHANGED <<dirExists, cookies, vCtx, vP, setupInvoked, lacking,
                   rmPaths, rmWhileOpen, vVerdict>>

\* __aexit__ lines 607-612: close the context, stop the driver.
AExit ==
    /\ pc = "done"
    /\ outcome = "returned"
    /\ StopPw("real")
    /\ outcome' = "closed"
    /\ UNCHANGED <<pc, dirExists, cookies, vCtx, vP, failReason, setupInvoked,
                   lacking, rmPaths, rmWhileOpen, vVerdict>>

\* The program is started again on the profile the last run left on disk;
\* the drivers and browsers of the ended process are gone.
Restart ==
    /\ pc = "done"
    /\ outcome \in {"raised", "closed"}
    /\ pc' = "v_entry"
    /\ ctxOpen' = {}
    /\ pwRunning' = {}
    /\ vCtx' = FALSE
    /\ vP' = FALSE
    /\ outcome' = "none"
    /\ failReason' = "none"
    /\ setupInvoked' = FALSE
    /\ lacking' = (dirExists /\ ~(CookieNames \subseteq cookies))
    /\ rmPaths' = {}
    /\ rmWhileOpen' = FALSE
    /\ vVerdict' = "none"
    /\ UNCHANGED <<dirExists, cookies>>

NextSession ==
    \/ VerifyEntry /\ UNCHANGED otherThanSession
    \/ VerifyLaunch /\ UNCHANGED otherThanSession
    \/ VerifyIsLoggedIn /\ UNCHANGED otherThanSession
    \/ VerifyInvalidClose /\ UNCHANGED otherThanSession
    \/ VerifyInvalidStop /\ UNCHANGED otherThanSession
    \/ VerifyInvalidRmtree /\ UNCHANGED otherThanSession
    \/ VerifyExceptClose /\ UNCHANGED otherThanSession
    \/ VerifyExceptStop /\ UNCHANGED otherThanSession
    \/ VerifyExceptRmtree /\ UNCHANGED otherThanSession
    \/ VerifyFinally /\ UNCHANGED otherThanSession
    \/ CheckFirstTime /\ UNCHANGED otherThanSession
    \/ SetupLaunch /\ UNCHANGED otherThanSession
    \/ SetupPage /\ UNCHANGED otherThanSession
    \/ UserLogin /\ UNCHANGED otherThanSession
    \/ SetupWaitClose /\ UNCHANGED otherThanSession
    \/ SetupExit /\ UNCHANGED otherThanSession
    \/ SetupExcept /\ UNCHANGED otherThanSession
    \/ RealStart /\ UNCHANGED otherThanSession
    \/ RealLaunch /\ UNCHANGED otherThanSession
    \/ RealIsLoggedIn /\ UNCHANGED otherThanSession
    \/ RealFailClose /\ UNCHANGED otherThanSession
    \/ RealFailStop /\ UNCHANGED otherThanSession
    \/ RealFailRmtree /\ UNCHANGED otherThanSession
    \/ RealExcept /\ UNCHANGED otherThanSession
    \/ AExit /\ UNCHANGED otherThanSession
    \/ Restart /\ UNCHANGED otherThanSession

SpecSession == InitSession /\ [][NextSession]_vars

----------------------------------------------------------------------------
(***************************************************************************)
(* image_gen_macro: the call, its listener and its save tasks.             *)
(***************************************************************************)

\* A ready session: __aenter__ has returned on a logged-in profile.
SessionReady ==
    /\ pc = "done"
    /\ outcome = "returned"
    /\ dirExists = TRUE
    /\ cookies = CookieNames
    /\ ctxOpen = {"real"}
    /\ pwRunning = {"real"}
    /\ vCtx = FALSE
    /\ vP = FALSE
    /\ failReason = "none"
    /\ setupInvoked = FALSE
    /\ lacking = FALSE
    /\ rmPaths = {}
    /\ rmWhileOpen = FALSE
    /\ vVerdict = "valid"

\* output_dir may hold files of earlier calls.
InitMacro ==
    /\ DoneIdle
    /\ LoginIdle
    /\ WeightsIdle
    /\ RemoveIdle
    /\ ParseIdle
    /\ ConfigIdle
    /\ CascadeIdle
    /\ SetLorasIdle
    /\ SessionReady
    /\ mpc = "idle"
    /\ listening = FALSE
    /\ saved_urls = {}
    /\ saved_files = <<>>
    /\ save_tasks = <<>>
    /\ disk \in {{}, {<<"a", 0>>}, {<<"a", 0>>, <<"a", 1>>}}
    /\ polls = 0
    /\ last_seen = 0
    /\ prev_count = 0
    /\ gathered = {}
    /\ result = "none"
    /\ toasts = 0
    /\ resubmits = 0
    /\ overwrote = FALSE
    /\ stale = {}
    /\ image_paths = [kind |-> "unset", files |-> <<>>]
    /\ ManagerReady
    /\ CommandsIdle
    /\ ReconcileIdle

\* The tasks that have been created and have not started yet.
NewTasks == {t \in Tasks : save_tasks[t].st = "new"}

\* asyncio runs a created task on the next iteration of the event loop, ahead
\* of whatever becomes ready later: the main coroutine resumes at most once
\* before a task created while it was suspended has run its first stretch.
MainMayResume == stale \cap NewTasks = {}

\* Lines 1169-1207: fresh saved_urls, saved_files and save_tasks; the
\* listener is registered before the try block.
MacroCall ==
    /\ mpc = "idle"
    /\ mpc' = "submit"
    /\ listening' = TRUE
    /\ saved_urls' = {}
    /\ saved_files' = <<>>
    /\ save_tasks' = <<>>
    /\ UNCHANGED <<disk, polls, last_seen, prev_count, gathered,
                   result, toasts, resubmits, overwrote, stale>>

\* Line 1206: the listener appends a task for every response of the page,
\* matching or not; the task starts when the loop next runs it.
ResponseArrives ==
    /\ listening
    /\ Len(save_tasks) < MaxResponses
    /\ mpc = "wait" => polls <= MaxArrivalPolls
    /\ \E u \in Urls :
          save_tasks' = Append(save_tasks,
                               [url |-> u, st |-> "new", outpath |-> <<"", 0>>])
    /\ UNCHANGED <<mpc, listening, saved_urls, saved_files, disk, polls,
                   last_seen, prev_count, gathered, result, toasts, resubmits,
                   overwrote, stale>>

\* _handle_response lines 1181-1197, up to `await response.body()`: the URL
\* test, saved_urls.add, and the choice of outpath by os.path.exists.
HandlerStart ==
    \E t \in Tasks :
       /\ save_tasks[t].st = "new"
       /\ LET u == save_tasks[t].url IN
          IF ShouldSave(u, saved_urls)
            THEN /\ saved_urls' = saved_urls \cup {u}
                 /\ save_tasks' = [save_tasks EXCEPT
                                     ![t].st = "body",
                                     ![t].outpath = FirstFree(Basename(u), 0, disk)]
            ELSE /\ save_tasks' = [save_tasks EXCEPT ![t].st = "skipped"]
                 /\ UNCHANGED saved_urls
       /\ stale' = stale \ {t}
       /\ UNCHANGED <<mpc, listening, saved_files, disk, polls,
                      last_seen, prev_count, gathered, result, toasts,
                      resubmits, overwrote>>

\* Mutant of HandlerFinish: a URL whose save failed is taken out of
\* saved_urls again.
HandlerFinishForgetsFailed ==
    \E t \in Tasks :
       /\ save_tasks[t].st = "body"
       /\ \/ /\ disk' = disk \cup {save_tasks[t].outpath}
             /\ overwrote' = (overwrote \/ save_tasks[t].outpath \in disk)
             /\ saved_files' = Append(saved_files, save_tasks[t].outpath)
             /\ save_tasks' = [save_tasks EXCEPT ![t].st = "saved"]
             /\ UNCHANGED saved_urls
          \/ /\ save_tasks' = [save_tasks EXCEPT ![t].st = "failed"]
             /\ saved_urls' = saved_urls \ {save_tasks[t].url}
             /\ UNCHANGED <<disk, overwrote, saved_files>>
       /\ UNCHANGED <<mpc, listening, polls, last_seen, prev_count,
                      gathered, result, toasts, resubmits, stale>>

\* Lines 1198-1204: the body arrives and is written with open(outpath, "wb"),
\* which truncates a file that exists; or body() or the write raises, which
\* is logged and swallowed.
HandlerFinish ==
    \E t \in Tasks :
       /\ save_tasks[t].st = "body"
       /\ \/ /\ disk' = disk \cup {save_tasks[t].outpath}
             /\ overwrote' = (overwrote \/ save_tasks[t].outpath \in disk)
             /\ saved_files' = Append(saved_files, save_tasks[t].outpath)
             /\ save_tasks' = [save_tasks EXCEPT ![t].st = "saved"]
          \/ /\ save_tasks' = [save_tasks EXCEPT ![t].st = "failed"]
             /\ UNCHANGED <<disk, overwrote, saved_files>>
       /\ UNCHANGED <<mpc, listening, saved_urls, polls, last_seen,
                      prev_count, gathered, result, toasts, resubmits, stale>>

\* Lines 1210-1224: go to the generator page, wait for the prompt field, fill
\* it, click generate.  A raise of any of these goes to the handler at 1294.
Submit ==
    /\ mpc = "submit"
    /\ MainMayResume
    /\ mpc' \in {"toast", "error"}
    /\ stale' = NewTasks
    /\ UNCHANGED <<listening, saved_urls, saved_files, save_tasks, disk,
                   polls, last_seen, prev_count, gathered, result,
                   toasts, resubmits, overwrote>>

\* Lines 1227-1249: wait 2 s for the empty-prompt toast.  No toast: wait_for
\* raises and the handler at 1247 goes on.  Toast: close it, fill and click
\* again, wait 2 s for the toast once more; whether it shows again (wait_for
\* returns) or not (wait_for raises, caught), the code goes on to the wait
\* loop.  A raise while resubmitting is caught by the same handler.  Lines
\* 1251-1255 then start the clock of the loop.
Toast ==
    /\ mpc = "toast"
    /\ MainMayResume
    /\ \/ /\ toasts' = 0 /\ resubmits' = 0
       \/ /\ toasts' = 1 /\ resubmits' \in {0, 1}
       \/ /\ toasts' = 2 /\ resubmits' = 1
    /\ mpc' = "wait"
    /\ polls' = 0
    /\ last_seen' = 0
    /\ prev_count' = 0
    /\ stale' = NewTasks
    /\ UNCHANGED <<listening, saved_urls, saved_files, save_tasks, disk,
                   gathered, result, overwrote>>

\* The loop test of line 1258, after n polls.
LoopContinues(n) == n * POLL_SLEEP < TOTAL_TIMEOUT

\* Mutant of IdleBreak: the idle time is measured from the start of the loop
\* instead of from the last new URL.
IdleBreakFromStart(n, seen) ==
    saved_urls # {} /\ n * POLL_SLEEP > IDLE_WAIT

\* Mutant of IdleBreak: the idle test does not ask for a seen URL.
IdleBreakWithoutUrls(n, seen) == (n - seen) * POLL_SLEEP > IDLE_WAIT

\* The idle test of line 1263, at poll n with last_seen set at poll seen.
IdleBreak(n, seen) == saved_urls # {} /\ (n - seen) * POLL_SLEEP > IDLE_WAIT

\* Lines 1258-1271: one iteration of the wait loop: sleep 0.5 s, note a
\* changed URL count, break when URLs were seen and none is newer than
\* IDLE_WAIT.  When the loop ends, by the break or by the ceiling, the code
\* runs on without an await to asyncio.gather, which is given the tasks in
\* save_tasks at this moment, or past it when there is none.
Poll ==
    /\ mpc = "wait"
    /\ MainMayResume
    /\ polls' = polls + 1
    /\ LET changed == Cardinality(saved_urls) # prev_count
           seen    == IF changed THEN polls' ELSE last_seen
       IN /\ prev_count' = Cardinality(saved_urls)
          /\ last_seen' = seen
          /\ IF ~IdleBreak(polls', seen) /\ LoopContinues(polls')
               THEN mpc' = "wait" /\ UNCHANGED gathered
               ELSE /\ gathered' = Tasks
                    /\ mpc' = IF Tasks # {} THEN "gathering" ELSE "fallback"
    /\ stale' = NewTasks
    /\ UNCHANGED <<listening, saved_urls, saved_files, save_tasks, disk,
                   result, toasts, resubmits, overwrote>>

\* Lines 1271-1273 and 1291-1292, 1304-1308: gather returns when each task it
\* was given has finished.  With a saved file the call returns saved_files,
\* the finally clause removing the listener; without one it goes on to the
\* fallback.
GatherDone ==
    /\ mpc = "gathering"
    /\ MainMayResume
    /\ \A t \in gathered : Finished(t)
    /\ IF saved_files = <<>>
         THEN mpc' = "fallback" /\ UNCHANGED <<result, listening>>
         ELSE mpc' = "returned" /\ result' = "list" /\ listening' = FALSE
    /\ stale' = NewTasks
    /\ UNCHANGED <<saved_urls, saved_files, save_tasks, disk, polls,
                   last_seen, prev_count, gathered, toasts, resubmits,
                   overwrote>>

\* Lines 1273-1292 and 1304-1308: the element screenshot of the last
\* generated image; its path is appended when it succeeds, its failure is
\* logged and swallowed.  saved_files is returned and the finally clause
\* removes the listener.
Fallback ==
    /\ mpc = "fallback"
    /\ MainMayResume
    /\ \/ /\ saved_files' = Append(saved_files, FallbackPath)
          /\ disk' = disk \cup {FallbackPath}
       \/ UNCHANGED <<saved_files, disk>>
    /\ mpc' = "returned"
    /\ result' = "list"
    /\ listening' = FALSE
    /\ stale' = NewTasks
    /\ UNCHANGED <<saved_urls, save_tasks, polls, last_seen,
                   prev_count, gathered, toasts, resubmits, overwrote>>

\* Mutant of ErrorReturn: the listener is removed on the normal return only.
ErrorReturnKeepsListener ==
    /\ mpc = "error"
    /\ MainMayResume
    /\ result' = "None"
    /\ mpc' = "returned"
    /\ stale' = NewTasks
    /\ UNCHANGED <<listening, saved_urls, saved_files, save_tasks, disk,
                   polls, last_seen, prev_count, gathered, toasts,
                   resubmits, overwrote>>

\* Mutant of ErrorReturn: a failure of the debug screenshot is not caught
\* and leaves the call as an exception.
ErrorReturnScreenshotRaises ==
    /\ mpc = "error"
    /\ MainMayResume
    /\ result' \in {"None", "raised"}
    /\ listening' = FALSE
    /\ mpc' = "returned"
    /\ stale' = NewTasks
    /\ UNCHANGED <<saved_urls, saved_files, save_tasks, disk, polls,
                   last_seen, prev_count, gathered, toasts, resubmits,
                   overwrote>>

\* Lines 1294-1308: the handler takes a debug screenshot (its own failure is
\* swallowed) and returns None; the finally clause removes the listener.
ErrorReturn ==
    /\ mpc = "error"
    /\ MainMayResume
    /\ result' = "None"
    /\ listening' = FALSE
    /\ mpc' = "returned"
    /\ stale' = NewTasks
    /\ UNCHANGED <<saved_urls, saved_files, save_tasks, disk, polls,
                   last_seen, prev_count, gathered, toasts, resubmits,
                   overwrote>>

\* src/gui.py lines 855-860: when the caller's timeout expires it cancels the
\* future, which cancels the coroutine at the await it is suspended in;
\* CancelledError is not an Exception, so only the finally clause (1304-1308)
\* runs on the way out.
Cancelled ==
    /\ mpc \in {"submit", "toast", "wait", "gathering", "fallback", "error"}
    /\ result' = "cancelled"
    /\ listening' = FALSE
    /\ mpc' = "returned"
    /\ stale' = NewTasks
    /\ UNCHANGED <<saved_urls, saved_files, save_tasks, disk, polls,
                   last_seen, prev_count, gathered, toasts, resubmits,
                   overwrote>>

\* Mutant of RunImageMacroResult: the test `if not _res` is left out.
RunImageMacroResultUntested(res, files) ==
    IF res = "list"
      THEN [kind |-> "list", files |-> files]
      ELSE [kind |-> "None", files |-> <<>>]

\* src/gui.py lines 862-875: what run_image_macro makes of the value _res of
\* image_gen_macro: None for None and for an empty list, else the list with
\* each path made absolute, which leaves every path denoting its file.
RunImageMacroResult(res, files) ==
    IF res = "list" /\ files # <<>>
      THEN [kind |-> "list", files |-> files]
      ELSE [kind |-> "None", files |-> <<>>]

\* src/gui.py lines 855-875: future.result returns what the coroutine
\* returned and the wrapper converts it; or future.result timed out, the
\* future was cancelled and the error is raised again to the caller.
RunImageMacroReturn ==
    /\ mpc = "returned"
    /\ image_paths.kind = "unset"
    /\ image_paths' = IF result = "cancelled"
                        THEN [kind |-> "raised", files |-> <<>>]
                        ELSE RunImageMacroResult(result, saved_files)

NextMacro ==
    \/ MacroCall /\ UNCHANGED otherThanMacro
    \/ ResponseArrives /\ UNCHANGED otherThanMacro
    \/ HandlerStart /\ UNCHANGED otherThanMacro
    \/ HandlerFinish /\ UNCHANGED otherThanMacro
    \/ Submit /\ UNCHANGED otherThanMacro
    \/ Toast /\ UNCHANGED otherThanMacro
    \/ Poll /\ UNCHANGED otherThanMacro
    \/ GatherDone /\ UNCHANGED otherThanMacro
    \/ Fallback /\ UNCHANGED otherThanMacro
    \/ ErrorReturn /\ UNCHANGED otherThanMacro
    \/ Cancelled /\ UNCHANGED otherThanMacro
    \/ RunImageMacroReturn /\ UNCHANGED otherThanWrapper

SpecMacro == InitMacro /\ [][NextMacro]_vars

\* The event loop runs every task that is ready and every timer that is
\* due: a save task that was created gets its first stretch, and the sleep
\* of the wait loop (line 1259) ends.
SpecMacroFair ==
    /\ SpecMacro
    /\ WF_vars(HandlerStart /\ UNCHANGED otherThanMacro)
    /\ WF_vars(Poll /\ UNCHANGED otherThanMacro)

----------------------------------------------------------------------------
(***************************************************************************)
(* Commands run through CrawlerManager (src/gui.py lines 102-177) and      *)
(* App.run_image_macro (839-860).  Every caller is a thread of its own     *)
(* (run_async_task, on_booster_toggle, sync_booster_ui_from_page,          *)
(* on_take_screenshot); asyncio.run_coroutine_threadsafe makes a task of   *)
(* the coroutine on the one background loop, where tasks take turns at     *)
(* their awaits.  A command is a chain of OpsPerCommand awaited browser    *)
(* operations.  The expiry of a timeout is a step that may happen whenever *)
(* the caller is still waiting.                                            *)
(***************************************************************************)

\* A session whose start failed: async_playwright().start() raised on a
\* valid profile.
SessionFailed ==
    /\ pc = "done"
    /\ outcome = "raised"
    /\ dirExists = TRUE
    /\ cookies = CookieNames
    /\ ctxOpen = {}
    /\ pwRunning = {}
    /\ vCtx = FALSE
    /\ vP = FALSE
    /\ failReason = "start"
    /\ setupInvoked = FALSE
    /\ lacking = FALSE
    /\ rmPaths = {}
    /\ rmWhileOpen = FALSE
    /\ vVerdict = "valid"

InitCommands ==
    /\ DoneIdle
    /\ LoginIdle
    /\ WeightsIdle
    /\ RemoveIdle
    /\ ParseIdle
    /\ ConfigIdle
    /\ CascadeIdle
    /\ SetLorasIdle
    /\ \/ SessionReady /\ ManagerReady
       \/ SessionFailed /\ ManagerFailed
    /\ MacroIdle
    /\ CommandsIdle
    /\ ReconcileIdle

\* The wrappers, lines 102-109 (and 116-123, 130-137, 144-151, 158-162,
\* 165-169, 172-176, 848-855): RuntimeError when the start failed or the
\* crawler is not ready; else the coroutine is handed to the loop and the
\* caller blocks in future.result.  On a closed loop
\* run_coroutine_threadsafe itself raises.  Commands are numbered in the
\* order of their submission.
CallCommand(c, k) ==
    /\ commands[c].caller = "idle"
    /\ c > 1 => commands[c - 1].caller # "idle"
    /\ IF \/ ChecksStartException(k) /\ start_exception
          \/ ~ready \/ ~crawler \/ loop = "none"
          \/ loop = "closed"
         THEN commands' = [commands EXCEPT ![c] =
                  [NoCommand EXCEPT !.kind = k, !.caller = "raised"]]
         ELSE commands' = [commands EXCEPT ![c] =
                  [kind |-> k, caller |-> "waiting", future |-> "pending",
                   task |-> "scheduled", left |-> OpsPerCommand]]
    /\ UNCHANGED <<cancel_requested, browser_ops>>

\* The loop runs the new task up to its first awaited browser operation.
TaskStart(c) ==
    /\ commands[c].task = "scheduled"
    /\ loop = "running"
    /\ commands' = [commands EXCEPT ![c].task = "running",
                                    ![c].left = @ - 1]
    /\ browser_ops' = browser_ops \cup {c}
    /\ UNCHANGED cancel_requested

\* The browser finishes the operation it was sent, awaited or not.
BrowserOpDone(c) ==
    /\ c \in browser_ops
    /\ browser_ops' = browser_ops \ {c}
    /\ UNCHANGED <<commands, cancel_requested>>

\* The task resumes after its operation: it sends the next one, or the
\* coroutine returns, which sets the result of a future that is still
\* pending and wakes its caller.
TaskResume(c) ==
    /\ commands[c].task = "running"
    /\ c \notin browser_ops
    /\ loop = "running"
    /\ IF commands[c].left > 0
         THEN /\ commands' = [commands EXCEPT ![c].left = @ - 1]
              /\ browser_ops' = browser_ops \cup {c}
         ELSE /\ commands' = [commands EXCEPT
                    ![c].task = "finished",
                    ![c].future = IF @ = "pending" THEN "finished" ELSE @,
                    ![c].caller = IF @ = "waiting" THEN "returned" ELSE @]
              /\ UNCHANGED browser_ops
    /\ UNCHANGED cancel_requested

\* future.result(timeout) expires (lines 111-114 and the like): the wrappers
\* with a handler cancel the future, which queues task.cancel() on the loop,
\* and raise; the booster wrappers (163, 170, 177) only raise.
Timeout(c) ==
    /\ commands[c].caller = "waiting"
    /\ commands[c].future = "pending"
    /\ IF CancelsOnTimeout(commands[c].kind)
         THEN /\ commands' = [commands EXCEPT ![c].caller = "timed_out",
                                              ![c].future = "cancelled"]
              /\ cancel_requested' = cancel_requested \cup {c}
         ELSE /\ commands' = [commands EXCEPT ![c].caller = "timed_out"]
              /\ UNCHANGED cancel_requested
    /\ UNCHANGED browser_ops

\* The loop runs the queued task.cancel(): a task that has not finished gets
\* CancelledError at the await it is suspended in and ends there; what it
\* sent to the browser is not recalled.
TaskCancel(c) ==
    /\ c \in cancel_requested
    /\ loop = "running"
    /\ cancel_requested' = cancel_requested \ {c}
    /\ commands' = [commands EXCEPT ![c].task =
                       IF @ \in {"scheduled", "running"} THEN "cancelled" ELSE @]
    /\ UNCHANGED browser_ops

NextCommands ==
    \/ (\E c \in Cmds, k \in Kinds : CallCommand(c, k))
          /\ UNCHANGED otherThanCommands
    \/ (\E c \in Cmds : TaskStart(c)) /\ UNCHANGED otherThanCommands
    \/ (\E c \in Cmds : BrowserOpDone(c)) /\ UNCHANGED otherThanCommands
    \/ (\E c \in Cmds : TaskResume(c)) /\ UNCHANGED otherThanCommands
    \/ (\E c \in Cmds : Timeout(c)) /\ UNCHANGED otherThanCommands
    \/ (\E c \in Cmds : TaskCancel(c)) /\ UNCHANGED otherThanCommands

SpecCommands == InitCommands /\ [][NextCommands]_vars

----------------------------------------------------------------------------
(***************************************************************************)
(* CrawlerManager.start and stop (src/gui.py lines 65-100, 179-204), and   *)
(* the restart of on_headless_toggle (1707-1715), which calls stop() and   *)
(* then start() from one thread.  The thread of start() runs __aenter__,   *)
(* modelled by the actions of the session above, and then run_forever.     *)
(* stop() is called once a start has finished (the App disables the        *)
(* headless checkbox while it starts the crawler).                         *)
(***************************************************************************)

\* The process starts with any profile a previous run can have left.
InitLifecycle ==
    /\ DoneIdle
    /\ LoginIdle
    /\ WeightsIdle
    /\ RemoveIdle
    /\ ParseIdle
    /\ ConfigIdle
    /\ CascadeIdle
    /\ SetLorasIdle
    /\ pc = "done"
    /\ dirExists \in BOOLEAN
    /\ cookies \in SUBSET CookieNames
    /\ (~dirExists => cookies = {})
    /\ ctxOpen = {}
    /\ pwRunning = {}
    /\ vCtx = FALSE
    /\ vP = FALSE
    /\ outcome = "none"
    /\ failReason = "none"
    /\ setupInvoked = FALSE
    /\ lacking = FALSE
    /\ rmPaths = {}
    /\ rmWhileOpen = FALSE
    /\ vVerdict = "none"
    /\ MacroIdle
    /\ ManagerIdle
    /\ CommandsIdle
    /\ ReconcileIdle

\* start(), lines 65-79 and 99-100: nothing when the thread is alive; else
\* a new thread with a new loop and a new PixaiCrawler, which begins
\* __aenter__.  What the previous crawler left open stays open: nothing
\* here closes it.
ManagerStart ==
    /\ thread # "alive"
    /\ stop_pc = "idle"
    /\ starts < MaxStarts
    /\ starts' = starts + 1
    /\ ready' = FALSE
    /\ start_exception' = FALSE
    /\ thread' = "alive"
    /\ loop' = "running"
    /\ crawler' = TRUE
    /\ shutdown' = "none"
    /\ orphan' = (orphan \/ ctxOpen # {})
    /\ pc' = "v_entry"
    /\ ctxOpen' = {}
    /\ pwRunning' = {}
    /\ vCtx' = FALSE
    /\ vP' = FALSE
    /\ outcome' = "none"
    /\ failReason' = "none"
    /\ setupInvoked' = FALSE
    /\ lacking' = (dirExists /\ ~(CookieNames \subseteq cookies))
    /\ rmPaths' = {}
    /\ rmWhileOpen' = FALSE
    /\ vVerdict' = "none"
    /\ UNCHANGED <<dirExists, cookies, stop_pc>>

\* _thread_target, lines 79-90: __aenter__ returned, so ready is set and the
\* thread enters run_forever; or it raised, so start_exception and ready are
\* set and run_forever is skipped: the loop is left as it is, neither
\* running nor closed, while on_done runs (on_crawler_started shows a
\* message box from this thread).
ThreadAfterEnter ==
    /\ thread = "alive"
    /\ ~ready
    /\ pc = "done"
    /\ outcome \in {"returned", "raised"}
    /\ ready' = TRUE
    /\ IF outcome = "returned"
         THEN UNCHANGED <<start_exception, loop>>
         ELSE /\ start_exception' = TRUE
              /\ loop' = "idle"
    /\ UNCHANGED <<sessionVars, thread, crawler, stop_pc, shutdown, orphan,
                   starts>>

\* _thread_target, lines 92-97, after a failed start: on_done has returned,
\* the loop is closed, with whatever was queued on it, and the thread ends.
ThreadFailedExit ==
    /\ thread = "alive"
    /\ ready
    /\ start_exception
    /\ loop = "idle"
    /\ loop' = "closed"
    /\ thread' = "dead"
    /\ UNCHANGED <<sessionVars, ready, start_exception, crawler, stop_pc,
                   shutdown, orphan, starts>>

\* stop(), lines 183-198: nothing when the thread is not alive; else the
\* coroutine of crawler.__aexit__ is handed to the loop and the caller waits
\* for it, at most `timeout` seconds.
ManagerStop ==
    /\ thread = "alive"
    /\ ready
    /\ stop_pc = "idle"
    /\ loop # "none" /\ crawler
    /\ shutdown' = "scheduled"
    /\ stop_pc' = "waiting"
    /\ UNCHANGED <<sessionVars, thread, loop, ready, start_exception, crawler,
                   orphan, starts>>

\* __aexit__ lines 608-609, on the loop: `if self.context: await
\* self.context.close()`.
ShutdownClose ==
    /\ shutdown = "scheduled"
    /\ loop \in {"running", "stop_requested"}
    /\ ctxOpen' = ctxOpen \ {"real"}
    /\ shutdown' = "stopping"
    /\ UNCHANGED <<pc, dirExists, cookies, pwRunning, vCtx, vP, outcome,
                   failReason, setupInvoked, lacking, rmPaths, rmWhileOpen,
                   vVerdict, thread, loop, ready, start_exception, crawler,
                   stop_pc, orphan, starts>>

\* __aexit__ lines 610-612: `if self.p: await self.p.stop()`.
ShutdownStop ==
    /\ shutdown = "stopping"
    /\ loop \in {"running", "stop_requested"}
    /\ StopPw("real")
    /\ outcome' = "closed"
    /\ shutdown' = "finished"
    /\ UNCHANGED <<pc, dirExists, cookies, vCtx, vP, failReason, setupInvoked,
                   lacking, rmPaths, rmWhileOpen, vVerdict, thread, loop,
                   ready, start_exception, crawler, stop_pc, orphan, starts>>

\* stop(), lines 197-202: fut.result returned because __aexit__ finished;
\* loop.stop is queued on the loop.
StopWaitReturns ==
    /\ stop_pc = "waiting"
    /\ shutdown = "finished"
    /\ loop' = "stop_requested"
    /\ stop_pc' = "joining"
    /\ UNCHANGED <<sessionVars, thread, ready, start_exception, crawler,
                   shutdown, orphan, starts>>

\* stop(), lines 197-202: fut.result(timeout) expired first; the error is
\* swallowed (199-200), the coroutine is left where it is and loop.stop is
\* queued on the loop all the same; a loop that does not run, after a
\* failed start, never takes it.
StopWaitTimeout ==
    /\ stop_pc = "waiting"
    /\ shutdown # "finished"
    /\ loop' = IF loop \in {"idle", "closed"} THEN loop ELSE "stop_requested"
    /\ stop_pc' = "joining"
    /\ UNCHANGED <<sessionVars, thread, ready, start_exception, crawler,
                   shutdown, orphan, starts>>

\* _thread_target, lines 90-97: run_forever returns once loop.stop has run;
\* the loop is closed, with whatever coroutine was still suspended on it,
\* and the thread ends.
ThreadLoopExit ==
    /\ thread = "alive"
    /\ loop = "stop_requested"
    /\ loop' = "closed"
    /\ thread' = "dead"
    /\ UNCHANGED <<sessionVars, ready, start_exception, crawler, stop_pc,
                   shutdown, orphan, starts>>

\* stop(), lines 203-204: thread.join(timeout) returns, the thread having
\* ended or the timeout having expired.
StopJoin ==
    /\ stop_pc = "joining"
    /\ stop_pc' = "idle"
    /\ UNCHANGED <<sessionVars, thread, loop, ready, start_exception, crawler,
                   shutdown, orphan, starts>>

\* A driver whose loop was closed (line 95) is served by nobody; the process
\* and its browser may live on, and may exit at any later moment (when the
\* pipes of the dropped transport are collected).
AbandonedDriverExits ==
    /\ \/ loop = "closed" /\ (ctxOpen # {} \/ pwRunning # {} \/ orphan)
       \/ loop # "closed" /\ orphan
    /\ orphan' = FALSE
    /\ IF loop = "closed"
         THEN ctxOpen' = {} /\ pwRunning' = {}
         ELSE UNCHANGED <<ctxOpen, pwRunning>>
    /\ UNCHANGED <<pc, dirExists, cookies, vCtx, vP, outcome, failReason,
                   setupInvoked, lacking, rmPaths, rmWhileOpen, vVerdict,
                   thread, loop, ready, start_exception, crawler, stop_pc,
                   shutdown, starts>>

NextLifecycle ==
    \/ VerifyEntry /\ UNCHANGED otherThanSession
    \/ VerifyLaunch /\ UNCHANGED otherThanSession
    \/ VerifyIsLoggedIn /\ UNCHANGED otherThanSession
    \/ VerifyInvalidClose /\ UNCHANGED otherThanSession
    \/ VerifyInvalidStop /\ UNCHANGED otherThanSession
    \/ VerifyInvalidRmtree /\ UNCHANGED otherThanSession
    \/ VerifyExceptClose /\ UNCHANGED otherThanSession
    \/ VerifyExceptStop /\ UNCHANGED otherThanSession
    \/ VerifyExceptRmtree /\ UNCHANGED otherThanSession
    \/ VerifyFinally /\ UNCHANGED otherThanSession
    \/ CheckFirstTime /\ UNCHANGED otherThanSession
    \/ SetupLaunch /\ UNCHANGED otherThanSession
    \/ SetupPage /\ UNCHANGED otherThanSession
    \/ UserLogin /\ UNCHANGED otherThanSession
    \/ SetupWaitClose /\ UNCHANGED otherThanSession
    \/ SetupExit /\ UNCHANGED otherThanSession
    \/ SetupExcept /\ UNCHANGED otherThanSession
    \/ RealStart /\ UNCHANGED otherThanSession
    \/ RealLaunch /\ UNCHANGED otherThanSession
    \/ RealIsLoggedIn /\ UNCHANGED otherThanSession
    \/ RealFailClose /\ UNCHANGED otherThanSession
    \/ RealFailStop /\ UNCHANGED otherThanSession
    \/ RealFailRmtree /\ UNCHANGED otherThanSession
    \/ RealExcept /\ UNCHANGED otherThanSession
    \/ ManagerStart /\ UNCHANGED otherThanLifecycle
    \/ ThreadAfterEnter /\ UNCHANGED otherThanLifecycle
    \/ ManagerStop /\ UNCHANGED otherThanLifecycle
    \/ ShutdownClose /\ UNCHANGED otherThanLifecycle
    \/ ShutdownStop /\ UNCHANGED otherThanLifecycle
    \/ StopWaitReturns /\ UNCHANGED otherThanLifecycle
    \/ StopWaitTimeout /\ UNCHANGED otherThanLifecycle
    \/ ThreadFailedExit /\ UNCHANGED otherThanLifecycle
    \/ ThreadLoopExit /\ UNCHANGED otherThanLifecycle
    \/ StopJoin /\ UNCHANGED otherThanLifecycle
    \/ AbandonedDriverExits /\ UNCHANGED otherThanLifecycle

SpecLifecycle == InitLifecycle /\ [][NextLifecycle]_vars

----------------------------------------------------------------------------
(***************************************************************************)
(* Reconciliation: App.execute_generation_task, steps 1-3 (src/gui.py      *)
(* lines 729-768), on a ready crawler.  The desired model and LoRA list    *)
(* come from the GUI, the active configuration from the page.              *)
(***************************************************************************)

\* The longest LoRA list, desired or active.
MaxLoras == 2

ModelNames == {"m1", "m2"}
ModelVersions == {"v1", "v2"}
LoraNames == {"a", "b"}

\* The order of str on the LoRA names.
NameRank(n) == IF n = "a" THEN 1 ELSE 2

\* The sequences over S of length at most n.
SeqsUpTo(S, n) == UNION {[1..k -> S] : k \in 0..n}

\* What _parse_lora_string can return: name and weight text (None without).
TargetLoraLists ==
    SeqsUpTo([name : LoraNames, weight : {"None", "0.8"}], MaxLoras)

\* What get_active_config can return (src/crawler.py lines 1378-1396): the
\* model and the LoRA cards of the page, or the dict of a failed reading.
ActiveConfigs ==
    [model_name : ModelNames, model_version : ModelVersions,
     loras : SeqsUpTo([name : LoraNames, weight : {"0.7"}], MaxLoras)]
    \cup {[model_name |-> "error_reading_model",
           model_version |-> "error_reading_version", loras |-> <<>>]}

\* [l['name'] for l in loras], lines 735 and 742.
Names(lora_list) == [i \in 1..Len(lora_list) |-> lora_list[i].name]

\* sorted(names): insertion of each name into the sorted rest.
RECURSIVE Insert(_, _)
Insert(n, sorted) ==
    IF sorted = <<>> \/ NameRank(n) <= NameRank(Head(sorted))
      THEN <<n>> \o sorted
      ELSE <<Head(sorted)>> \o Insert(n, Tail(sorted))

RECURSIVE Sorted(_)
Sorted(names) ==
    IF names = <<>> THEN <<>> ELSE Insert(Head(names), Sorted(Tail(names)))

\* Line 744.
ModelMatch(active) ==
    /\ active.model_name = target_model_name
    /\ active.model_version = target_model_version

\* Mutant of LoraNamesMatch: the two lists are compared as they stand.
LoraNamesMatchInOrder(active) ==
    Names(target_loras) = Names(active.loras)

\* Mutant of LoraNamesMatch: the LoRAs are compared with their weights, as
\* the same entries in any order.
LoraNamesMatchWithWeights(active) ==
    /\ Len(target_loras) = Len(active.loras)
    /\ \A l \in [name : LoraNames, weight : {"None", "0.8", "0.7"}] :
          Cardinality({i \in 1..Len(target_loras) : target_loras[i] = l})
            = Cardinality({i \in 1..Len(active.loras) : active.loras[i] = l})

\* Line 745.
LoraNamesMatch(active) ==
    Sorted(Names(target_loras)) = Sorted(Names(active.loras))

\* The record of one configuration command: its coroutine, its argument and
\* whether the wrapper returned or raised.
SetModel(ok) ==
    [cmd |-> "set_model",
     arg |-> <<target_model_name, target_model_version>>, ok |-> ok]
SetLoras(ok) == [cmd |-> "set_loras", arg |-> target_loras, ok |-> ok]

InitReconcile ==
    /\ DoneIdle
    /\ LoginIdle
    /\ WeightsIdle
    /\ RemoveIdle
    /\ ParseIdle
    /\ ConfigIdle
    /\ CascadeIdle
    /\ SetLorasIdle
    /\ SessionReady
    /\ MacroIdle
    /\ ManagerReady
    /\ CommandsIdle
    /\ rpc = "start"
    /\ target_model_name \in ModelNames
    /\ target_model_version \in ModelVersions
    /\ target_loras \in TargetLoraLists
    /\ active_config = [model_name |-> "", model_version |-> "",
                        loras |-> <<>>]
    /\ issued = <<>>

\* Lines 737-739: run_get_active_config returns the active configuration,
\* or raises (timeout, crawler not ready), which ends the task at 806.
GetActiveConfig ==
    /\ rpc = "start"
    /\ \/ /\ active_config' \in ActiveConfigs
          /\ rpc' = "compare"
       \/ /\ rpc' = "failed"
          /\ UNCHANGED active_config
    /\ UNCHANGED <<target_model_name, target_model_version, target_loras,
                   issued>>

\* Mutant of Compare: after set_model the LoRAs are applied only if their
\* names differ from the active ones.
CompareLorasOnlyIfDifferent ==
    /\ rpc = "compare"
    /\ IF ~ModelMatch(active_config)
         THEN \E ok \in BOOLEAN :
                /\ issued' = Append(issued, SetModel(ok))
                /\ rpc' = IF ~ok THEN "failed"
                          ELSE IF LoraNamesMatch(active_config) THEN "done"
                          ELSE "model_set"
         ELSE IF ~LoraNamesMatch(active_config)
         THEN \E ok \in BOOLEAN :
                /\ issued' = Append(issued, SetLoras(ok))
                /\ rpc' = IF ok THEN "done" ELSE "failed"
         ELSE rpc' = "done" /\ UNCHANGED issued
    /\ UNCHANGED <<target_model_name, target_model_version, target_loras,
                   active_config>>

\* Mutant of Compare: different LoRA names alone also go through the model
\* picker before the LoRAs are applied.
CompareModelPickerAlways ==
    /\ rpc = "compare"
    /\ IF ~ModelMatch(active_config) \/ ~LoraNamesMatch(active_config)
         THEN \E ok \in BOOLEAN :
                /\ issued' = Append(issued, SetModel(ok))
                /\ rpc' = IF ok THEN "model_set" ELSE "failed"
         ELSE rpc' = "done" /\ UNCHANGED issued
    /\ UNCHANGED <<target_model_name, target_model_version, target_loras,
                   active_config>>

\* Lines 742-765: the comparison and the first command it leads to.  A
\* different model: run_set_model (753).  The same model and different LoRA
\* names: run_set_loras with the desired list (762).  Else nothing.  A
\* command that raises ends the task at 806.
Compare ==
    /\ rpc = "compare"
    /\ IF ~ModelMatch(active_config)
         THEN \E ok \in BOOLEAN :
                /\ issued' = Append(issued, SetModel(ok))
                /\ rpc' = IF ok THEN "model_set" ELSE "failed"
         ELSE IF ~LoraNamesMatch(active_config)
         THEN \E ok \in BOOLEAN :
                /\ issued' = Append(issued, SetLoras(ok))
                /\ rpc' = IF ok THEN "done" ELSE "failed"
         ELSE rpc' = "done" /\ UNCHANGED issued
    /\ UNCHANGED <<target_model_name, target_model_version, target_loras,
                   active_config>>

\* Lines 755-757: after run_set_model has returned, run_set_loras with the
\* desired list, whatever the LoRA names were.
SetLorasAfterModel ==
    /\ rpc = "model_set"
    /\ \E ok \in BOOLEAN :
          /\ issued' = Append(issued, SetLoras(ok))
          /\ rpc' = IF ok THEN "done" ELSE "failed"
    /\ UNCHANGED <<target_model_name, target_model_version, target_loras,
                   active_config>>

NextReconcile ==
    \/ GetActiveConfig /\ UNCHANGED otherThanReconcile
    \/ Compare /\ UNCHANGED otherThanReconcile
    \/ SetLorasAfterModel /\ UNCHANGED otherThanReconcile

SpecReconcile == InitReconcile /\ [][NextReconcile]_vars

----------------------------------------------------------------------------
(***************************************************************************)
(* PixaiCrawler.set_loras (src/crawler.py lines 969-1167) and what          *)
(* execute_generation_task does with its value (src/gui.py lines 757-793).  *)
(* A str is a sequence of one-character strings, so that lower(), strip()   *)
(* and difflib's ratio are computed, not assumed.                           *)
(***************************************************************************)

\* The most result cards one search shows.
MaxTitles == 2

\* str.lower() on the characters in use.
LowerChar(c) == IF c = "A" THEN "a" ELSE IF c = "B" THEN "b" ELSE c
Lower(s) == [k \in 1..Len(s) |-> LowerChar(s[k])]

\* str.strip() for the blank.
RECURSIVE LStrip(_)
LStrip(s) == IF s # <<>> /\ Head(s) = " " THEN LStrip(Tail(s)) ELSE s
RECURSIVE RStrip(_)
RStrip(s) ==
    IF s # <<>> /\ s[Len(s)] = " " THEN RStrip(SubSeq(s, 1, Len(s) - 1))
    ELSE s
Strip(s) == RStrip(LStrip(s))

\* The desired names: "Ab" and the empty name that _parse_lora_string
\* gives for ":0.8".
LoraNameStrs == {<<"A", "b">>, <<>>}

\* The desired lists handed to set_loras.
LoraArgs ==
    SeqsUpTo([name : LoraNameStrs, weight : {"None", "0.8"}], MaxLoras)

\* The title a result card yields at lines 1038-1045 before strip(): the
\* label's title attribute or, without one, the text of the p tag, or "".
\* "aB " equals "Ab" ignoring case, "abx" is similar to it (ratio 0.8),
\* "xb" less so (0.5), "xy" not at all.
RawTitles ==
    {<<"a", "B", " ">>, <<"a", "b", "x">>, <<"x", "b">>, <<"x", "y">>, <<>>}

\* The result lists a search can show: none, or up to MaxTitles cards.
ResultLists == SeqsUpTo(RawTitles, MaxTitles)

\* difflib.SequenceMatcher.find_longest_match without junk on a[alo..ahi]
\* and b[blo..bhi]: the matching blocks <<i, j, k>>.
MatchingBlocks(a, alo, ahi, b, blo, bhi) ==
    {blk \in (alo..ahi) \X (blo..bhi) \X (1..Len(a)) :
        /\ blk[1] + blk[3] - 1 <= ahi
        /\ blk[2] + blk[3] - 1 <= bhi
        /\ \A d \in 0..(blk[3] - 1) : a[blk[1] + d] = b[blk[2] + d]}

\* The longest block, the earliest in a, then the earliest in b.
LongestMatch(blocks) ==
    CHOOSE x \in blocks :
        \A y \in blocks :
            \/ x[3] > y[3]
            \/ x[3] = y[3] /\ x[1] < y[1]
            \/ x[3] = y[3] /\ x[1] = y[1] /\ x[2] <= y[2]

\* SequenceMatcher.get_matching_blocks: the longest block, then the same
\* to its left and to its right; the sum of the block lengths.
RECURSIVE MatchCount(_, _, _, _, _, _)
MatchCount(a, alo, ahi, b, blo, bhi) ==
    LET blocks == MatchingBlocks(a, alo, ahi, b, blo, bhi)
    IN  IF blocks = {} THEN 0
        ELSE LET m == LongestMatch(blocks)
             IN  m[3]
                   + MatchCount(a, alo, m[1] - 1, b, blo, m[2] - 1)
                   + MatchCount(a, m[1] + m[3], ahi, b, m[2] + m[3], bhi)

\* SequenceMatcher(None, a, b).ratio() as the fraction <<2 * M, T>>; 1.0
\* for two empty strings.
Ratio(a, b) ==
    IF Len(a) + Len(b) = 0 THEN <<1, 1>>
    ELSE <<2 * MatchCount(a, 1, Len(a), b, 1, Len(b)), Len(a) + Len(b)>>

\* x > y for fractions with positive denominators.
Greater(x, y) == x[1] * y[2] > y[1] * x[2]

\* Line 1059.
Similarity(lora_name, title) == Ratio(Lower(lora_name), Lower(title))

\* Line 1054.
ExactMatch(lora_name, title) == Lower(title) = Lower(lora_name)

InitSetLoras ==
    /\ DoneIdle
    /\ LoginIdle
    /\ WeightsIdle
    /\ RemoveIdle
    /\ ParseIdle
    /\ ConfigIdle
    /\ CascadeIdle
    /\ SessionReady
    /\ MacroIdle
    /\ ManagerReady
    /\ CommandsIdle
    /\ ReconcileIdle
    /\ slpc = "begin"
    /\ loras \in LoraArgs
    /\ lora_index = 0
    /\ results = <<>>
    /\ all_titles = <<>>
    /\ exact_match_index = 0 - 1
    /\ best_match_index = 0 - 1
    /\ highest_similarity = MinusOne
    /\ target_index = 0 - 1
    /\ warned = FALSE
    /\ no_results = FALSE
    /\ weights_filled = {}
    /\ set_loras_result = NoValue
    /\ new_trigger_words = "None"
    /\ preset_trigger_words = ""
    /\ generation_submitted = FALSE

\* set_loras ends: with a value, or by the re-raise of line 1167.
SetLorasEnds(r) ==
    /\ slpc' = "ended"
    /\ set_loras_result' = r

scanVars == <<results, all_titles, exact_match_index, best_match_index,
              highest_similarity, target_index, warned>>
callerVars == <<new_trigger_words, preset_trigger_words,
                generation_submitted>>

\* Lines 973-993: the active LoRAs are removed; an empty desired list
\* returns "" (984); else the panel and its market tab are opened.  Any
\* page call may raise.
RemoveAndOpenPanel ==
    /\ slpc = "begin"
    /\ \/ SetLorasEnds(Raised) /\ UNCHANGED lora_index
       \/ loras = <<>> /\ SetLorasEnds(Returned("")) /\ UNCHANGED lora_index
       \/ /\ loras # <<>>
          /\ slpc' = "search"
          /\ lora_index' = 1
          /\ UNCHANGED set_loras_result
    /\ UNCHANGED <<loras, scanVars, no_results, weights_filled, callerVars>>

\* Lines 996-1026 for loras[lora_index]: the name is typed and the page
\* shows its results.  With none, the wait of 1006 times out and set_loras
\* returns False (1009).  If the cards are gone again when counted (1012),
\* the link of the name is tried: True (1023) or False (1026).
SearchLora ==
    /\ slpc = "search"
    /\ \/ /\ SetLorasEnds(Raised)
          /\ UNCHANGED <<results, no_results>>
       \/ /\ results' = <<>>
          /\ no_results' = TRUE
          /\ SetLorasEnds(Returned("False"))
       \/ \E shown \in ResultLists \ {<<>>} :
             \/ /\ results' = shown
                /\ slpc' = "scan"
                /\ UNCHANGED <<no_results, set_loras_result>>
             \/ /\ results' = <<>>
                /\ no_results' = TRUE
                /\ \E v \in {"True", "False"} : SetLorasEnds(Returned(v))
    /\ all_titles' = <<>>
    /\ exact_match_index' = 0 - 1
    /\ best_match_index' = 0 - 1
    /\ highest_similarity' = MinusOne
    /\ target_index' = 0 - 1
    /\ warned' = FALSE
    /\ UNCHANGED <<loras, lora_index, weights_filled, callerVars>>

\* Lines 1034-1062, one iteration for i = len(all_titles): the title is
\* read and stripped; an empty one is skipped; one equal to the name
\* ignoring case ends the scan; else the most similar so far is kept.
\* Reading the card may raise.
ScanTitle ==
    /\ slpc = "scan"
    /\ Len(all_titles) < Len(results)
    /\ \/ /\ SetLorasEnds(Raised)
          /\ UNCHANGED <<all_titles, exact_match_index, best_match_index,
                         highest_similarity>>
       \/ LET i == Len(all_titles)
              title == Strip(results[i + 1])
              lora_name == loras[lora_index].name
              similarity == Similarity(lora_name, title)
          IN  /\ all_titles' = Append(all_titles, title)
              /\ UNCHANGED set_loras_result
              /\ IF title = <<>>
                   THEN /\ UNCHANGED <<exact_match_index, best_match_index,
                                       highest_similarity>>
                        /\ slpc' = IF i + 1 = Len(results) THEN "decide"
                                   ELSE "scan"
                   ELSE IF ExactMatch(lora_name, title)
                   THEN /\ exact_match_index' = i
                        /\ UNCHANGED <<best_match_index, highest_similarity>>
                        /\ slpc' = "decide"
                   ELSE /\ IF Greater(similarity, highest_similarity)
                             THEN /\ highest_similarity' = similarity
                                  /\ best_match_index' = i
                             ELSE UNCHANGED <<highest_similarity,
                                              best_match_index>>
                        /\ UNCHANGED exact_match_index
                        /\ slpc' = IF i + 1 = Len(results) THEN "decide"
                                   ELSE "scan"
    /\ UNCHANGED <<loras, lora_index, results, target_index, warned,
                   no_results, weights_filled, callerVars>>

\* Mutant of Decide: the most similar title is selected whatever its ratio.
DecideNoThreshold ==
    /\ slpc = "decide"
    /\ IF exact_match_index # 0 - 1
         THEN target_index' = exact_match_index /\ UNCHANGED warned
         ELSE IF best_match_index # 0 - 1
         THEN target_index' = best_match_index /\ UNCHANGED warned
         ELSE target_index' = 0 /\ warned' = TRUE
    /\ slpc' = "click"
    /\ UNCHANGED <<loras, lora_index, results, all_titles,
                   exact_match_index, best_match_index, highest_similarity,
                   no_results, weights_filled, set_loras_result, callerVars>>

\* Lines 1064-1082: the exact match if there is one, else the most similar
\* title if its ratio exceeds 0.6, else the first card with a warning
\* (count is positive here, so line 1082 is not reached).
Decide ==
    /\ slpc = "decide"
    /\ IF exact_match_index # 0 - 1
         THEN target_index' = exact_match_index /\ UNCHANGED warned
         ELSE IF best_match_index # 0 - 1
                   /\ Greater(highest_similarity, Threshold)
         THEN target_index' = best_match_index /\ UNCHANGED warned
         ELSE target_index' = 0 /\ warned' = TRUE
    /\ slpc' = "click"
    /\ UNCHANGED <<loras, lora_index, results, all_titles,
                   exact_match_index, best_match_index, highest_similarity,
                   no_results, weights_filled, set_loras_result, callerVars>>

\* Lines 1084-1093: the chosen card is scrolled to and clicked, which may
\* raise; then the next desired LoRA is searched, or the loop is over.
ClickTarget ==
    /\ slpc = "click"
    /\ \/ SetLorasEnds(Raised) /\ UNCHANGED lora_index
       \/ /\ lora_index < Len(loras)
          /\ lora_index' = lora_index + 1
          /\ slpc' = "search"
          /\ UNCHANGED set_loras_result
       \/ /\ lora_index = Len(loras)
          /\ slpc' = "confirm"
          /\ UNCHANGED <<lora_index, set_loras_result>>
    /\ UNCHANGED <<loras, scanVars, no_results, weights_filled, callerVars>>

\* Lines 1095-1153: the confirm button is clicked, which may raise; then
\* the weight field of every LoRA whose weight is not None is filled (the
\* errors of a fill are logged at 1129 and 1149, not raised).
ConfirmAndSetWeights ==
    /\ slpc = "confirm"
    /\ \/ SetLorasEnds(Raised) /\ UNCHANGED weights_filled
       \/ /\ weights_filled' =
                {k \in 1..Len(loras) : loras[k].weight # "None"}
          /\ slpc' = "read"
          /\ UNCHANGED set_loras_result
    /\ UNCHANGED <<loras, lora_index, scanVars, no_results, callerVars>>

\* Lines 1158-1163: the text of the prompt field is returned as the
\* trigger words, unless the field does not show in time.
ReadTriggerWords ==
    /\ slpc = "read"
    /\ \/ SetLorasEnds(Raised)
       \/ \E trigger_words \in TriggerWordStrs :
             SetLorasEnds(Returned(trigger_words))
    /\ UNCHANGED <<loras, lora_index, scanVars, no_results, weights_filled,
                   callerVars>>

\* src/gui.py lines 150-156 and 757 or 762: run_set_loras hands the value
\* of set_loras to execute_generation_task, or its exception, which ends
\* the task at 806.
RunSetLorasReturns ==
    /\ slpc = "ended"
    /\ IF set_loras_result.kind = "returned"
         THEN /\ new_trigger_words' = set_loras_result.value
              /\ slpc' = "update"
         ELSE /\ slpc' = "task_error"
              /\ UNCHANGED new_trigger_words
    /\ UNCHANGED <<loras, lora_index, scanVars, no_results, weights_filled,
                   set_loras_result, preset_trigger_words,
                   generation_submitted>>

\* src/gui.py lines 767-768 and 1119-1143: a value that is not None is
\* stored as the trigger words of the matching model preset, if there is
\* one.
UpdatePreset ==
    /\ slpc = "update"
    /\ \/ /\ new_trigger_words # "None"
          /\ preset_trigger_words' = new_trigger_words
       \/ UNCHANGED preset_trigger_words
    /\ slpc' = "generate"
    /\ UNCHANGED <<loras, lora_index, scanVars, no_results, weights_filled,
                   set_loras_result, new_trigger_words,
                   generation_submitted>>

\* src/gui.py lines 770-793: the generation of the task is submitted.
RunGeneration ==
    /\ slpc = "generate"
    /\ generation_submitted' = TRUE
    /\ slpc' = "done"
    /\ UNCHANGED <<loras, lora_index, scanVars, no_results, weights_filled,
                   set_loras_result, new_trigger_words,
                   preset_trigger_words>>

NextSetLoras ==
    \/ RemoveAndOpenPanel /\ UNCHANGED otherThanSetLoras
    \/ SearchLora /\ UNCHANGED otherThanSetLoras
    \/ ScanTitle /\ UNCHANGED otherThanSetLoras
    \/ Decide /\ UNCHANGED otherThanSetLoras
    \/ ClickTarget /\ UNCHANGED otherThanSetLoras
    \/ ConfirmAndSetWeights /\ UNCHANGED otherThanSetLoras
    \/ ReadTriggerWords /\ UNCHANGED otherThanSetLoras
    \/ RunSetLorasReturns /\ UNCHANGED otherThanSetLoras
    \/ UpdatePreset /\ UNCHANGED otherThanSetLoras
    \/ RunGeneration /\ UNCHANGED otherThanSetLoras

SpecSetLoras == InitSetLoras /\ [][NextSetLoras]_vars

----------------------------------------------------------------------------
(***************************************************************************)
(* The click cascade PixaiCrawler._find_and_click_button_by_text           *)
(* (src/crawler.py lines 381-529) as add_booster calls it (725-754).  The  *)
(* buttons that match the text do not change during one call.              *)
(*                                                                         *)
(* Page.evaluate takes the expression and one argument.  The call of line  *)
(* 444 passes four, and its text, not being an f-string, keeps the doubled *)
(* braces of `scrollIntoView({{...}})`: it raises for every candidate, the *)
(* handler of line 524 logs that, and the loop goes on.  Lines 452-522     *)
(* (debug-protocol events, mouse sequence, pointer events, DOM click on a  *)
(* candidate) are therefore never reached.                                 *)
(***************************************************************************)

\* The most buttons that match the text.
MaxCandidates == 2

\* The five strategies of the cascade, in the order they are documented.
Strategies == <<"direct", "mouse", "cdp", "pointer", "js">>

\* One invocation of a strategy: ok iff the click call returned.
Attempt(strategy, ok) == [strategy |-> strategy, ok |-> ok]

InitCascade ==
    /\ DoneIdle
    /\ LoginIdle
    /\ WeightsIdle
    /\ RemoveIdle
    /\ ParseIdle
    /\ ConfigIdle
    /\ SessionReady
    /\ MacroIdle
    /\ ManagerReady
    /\ CommandsIdle
    /\ ReconcileIdle
    /\ SetLorasIdle
    /\ cpc = "locate"
    /\ buttons \in 0..MaxCandidates
    /\ box \in BOOLEAN
    /\ buttons = 0 => ~box
    /\ dialog_visible = FALSE
    /\ click_delivered = FALSE
    /\ attempts = <<>>
    /\ candidates = 0 - 1
    /\ tried = <<>>
    /\ clicked = "none"
    /\ booster = "none"

\* The cascade returns v to add_booster, or raises.
CascadeEnds(v) ==
    /\ clicked' = v
    /\ cpc' = "ended"

\* Lines 388-392 and 409-410: the first matching button is awaited for 1 s
\* and its bounding box read.  Without a button the wait raises; a driver
\* error raises as well; without a box nothing is clicked.  Each of these
\* leads to the document scan.
Locate ==
    /\ cpc = "locate"
    /\ \/ cpc' = "scan"
       \/ buttons > 0 /\ box /\ cpc' = "click"
    /\ UNCHANGED <<buttons, box, dialog_visible, click_delivered, attempts,
                   candidates, tried, clicked, booster>>

\* Lines 394-398: btn.first.click(timeout=1500).  If it returns, the
\* cascade returns True at once (397); if it raises, the mouse is tried.
DirectClick ==
    /\ cpc = "click"
    /\ \/ /\ attempts' = Append(attempts, Attempt("direct", TRUE))
          /\ click_delivered' = TRUE
          /\ CascadeEnds("True")
       \/ /\ attempts' = Append(attempts, Attempt("direct", FALSE))
          /\ cpc' = "mouse"
          /\ UNCHANGED <<click_delivered, clicked>>
    /\ UNCHANGED <<buttons, box, dialog_visible, candidates, tried, booster>>

\* Lines 400-408: mouse move, down and up at the center of the box.  If
\* they return, the cascade returns True (406); if one raises, the
\* document is scanned.
MouseSequence ==
    /\ cpc = "mouse"
    /\ \/ /\ attempts' = Append(attempts, Attempt("mouse", TRUE))
          /\ click_delivered' = TRUE
          /\ CascadeEnds("True")
       \/ /\ attempts' = Append(attempts, Attempt("mouse", FALSE))
          /\ cpc' = "scan"
          /\ UNCHANGED <<click_delivered, clicked>>
    /\ UNCHANGED <<buttons, box, dialog_visible, candidates, tried, booster>>

\* Lines 414-437: page.evaluate collects the matching buttons; it is in no
\* try block, so its error leaves the cascade.  No candidate: False (437).
ScanCandidates ==
    /\ cpc = "scan"
    /\ \/ CascadeEnds("raised") /\ UNCHANGED candidates
       \/ /\ candidates' = buttons
          /\ IF buttons = 0 THEN CascadeEnds("False")
             ELSE cpc' = "candidate" /\ UNCHANGED clicked
    /\ UNCHANGED <<buttons, box, dialog_visible, click_delivered, attempts,
                   tried, booster>>

\* Mutant of TryCandidate: the loop is left after the first candidate.
TryFirstCandidateOnly ==
    /\ cpc = "candidate"
    /\ tried' = Append(tried, Len(tried))
    /\ cpc' = "exhausted"
    /\ UNCHANGED <<buttons, box, dialog_visible, click_delivered, attempts,
                   candidates, clicked, booster>>

\* Lines 440-450 and 524-525, for candidate i = len(tried): the trial is
\* entered, the evaluate of line 444 raises, the handler logs it, and the
\* loop goes to the next candidate or ends.
TryCandidate ==
    /\ cpc = "candidate"
    /\ tried' = Append(tried, Len(tried))
    /\ cpc' = IF Len(tried) + 1 = candidates THEN "exhausted"
              ELSE "candidate"
    /\ UNCHANGED <<buttons, box, dialog_visible, click_delivered, attempts,
                   candidates, clicked, booster>>

\* Lines 527-529.
AllFailed ==
    /\ cpc = "exhausted"
    /\ CascadeEnds("False")
    /\ UNCHANGED <<buttons, box, dialog_visible, click_delivered, attempts,
                   candidates, tried, booster>>

\* The page: after a click was delivered the dialog opens, at some time or
\* never (an overlay may have taken the click).
DialogAppears ==
    /\ click_delivered
    /\ ~dialog_visible
    /\ dialog_visible' = TRUE
    /\ UNCHANGED <<cpc, buttons, box, click_delivered, attempts, candidates,
                   tried, clicked, booster>>

\* add_booster, lines 728-732: the cascade raised, or returned False, for
\* which a screenshot is taken and an exception raised; in both cases the
\* handler of line 745 is next.
AddBoosterNotClicked ==
    /\ cpc = "ended"
    /\ clicked \in {"False", "raised"}
    /\ cpc' = "ab_except"
    /\ UNCHANGED <<buttons, box, dialog_visible, click_delivered, attempts,
                   candidates, tried, clicked, booster>>

\* Lines 734-735 after True: the dialog is awaited for 5 s; if it does not
\* show, wait_for raises.
AwaitDialog ==
    /\ cpc = "ended"
    /\ clicked = "True"
    /\ cpc' = IF dialog_visible THEN "ab_item" ELSE "ab_except"
    /\ UNCHANGED <<buttons, box, dialog_visible, click_delivered, attempts,
                   candidates, tried, clicked, booster>>

\* Lines 736-743: the item of the booster is awaited, its button clicked,
\* the dialog closed and awaited to hide.  A step may raise, before or
\* after the dialog has closed.
AddItem ==
    /\ cpc = "ab_item"
    /\ \/ /\ dialog_visible' = FALSE
          /\ booster' = "added"
          /\ cpc' = "done"
       \/ /\ dialog_visible' \in BOOLEAN
          /\ cpc' = "ab_except"
          /\ UNCHANGED booster
    /\ UNCHANGED <<buttons, box, click_delivered, attempts, candidates,
                   tried, clicked>>

\* Lines 745-754: the exception is logged, a visible dialog is closed if
\* that click works, and the exception is raised again.
AddBoosterExcept ==
    /\ cpc = "ab_except"
    /\ dialog_visible' \in (IF dialog_visible THEN BOOLEAN ELSE {FALSE})
    /\ booster' = "raised"
    /\ cpc' = "done"
    /\ UNCHANGED <<buttons, box, click_delivered, attempts, candidates,
                   tried, clicked>>

NextCascade ==
    \/ Locate /\ UNCHANGED otherThanCascade
    \/ DirectClick /\ UNCHANGED otherThanCascade
    \/ MouseSequence /\ UNCHANGED otherThanCascade
    \/ ScanCandidates /\ UNCHANGED otherThanCascade
    \/ TryCandidate /\ UNCHANGED otherThanCascade
    \/ AllFailed /\ UNCHANGED otherThanCascade
    \/ DialogAppears /\ UNCHANGED otherThanCascade
    \/ AddBoosterNotClicked /\ UNCHANGED otherThanCascade
    \/ AwaitDialog /\ UNCHANGED otherThanCascade
    \/ AddItem /\ UNCHANGED otherThanCascade
    \/ AddBoosterExcept /\ UNCHANGED otherThanCascade

SpecCascade == InitCascade /\ [][NextCascade]_vars

----------------------------------------------------------------------------
(***************************************************************************)
(* PixaiCrawler.get_active_config (src/crawler.py lines 1310-1394).  The   *)
(* loop of the second script is taken card by card.                        *)
(***************************************************************************)

\* The most LoRA cards the page shows: more than the limit.
MaxCards == 17

\* The limit of lines 1365 and 1371-1372.
LoraLimit == 15

\* The text of a card's name link before trim(); "" also for no link.
RawCardNames == {<<"a">>, <<" ", "a", " ">>, <<>>, <<" ">>}

\* What the first script returns: null without the model header, else the
\* trimmed texts of the two links ('' for a missing one).
ModelInfos ==
    {[header |-> "absent", model_name |-> "", model_version |-> ""]}
    \cup [header : {"present"}, model_name : ModelNames \cup {""},
          model_version : ModelVersions \cup {""}]

\* Line 1394.
ErrorConfig ==
    [model_name |-> "error_reading_model",
     model_version |-> "error_reading_version", loras |-> <<>>]

InitConfig ==
    /\ DoneIdle
    /\ LoginIdle
    /\ WeightsIdle
    /\ RemoveIdle
    /\ ParseIdle
    /\ SessionReady
    /\ MacroIdle
    /\ ManagerReady
    /\ CommandsIdle
    /\ ReconcileIdle
    /\ SetLorasIdle
    /\ CascadeIdle
    /\ gpc = "model"
    /\ cards_total \in 0..MaxCards
    /\ cards_seen = 0
    /\ model_info = NoModelInfo
    /\ loras_info = <<>>
    /\ config = NoConfig

\* Lines 1392-1394: any exception gives the error value.
ReturnError ==
    /\ gpc' = "returned"
    /\ config' = ErrorConfig

\* Lines 1314-1322: the model header is read, or the script raises.
ReadModel ==
    /\ gpc = "model"
    /\ \/ ReturnError /\ UNCHANGED model_info
       \/ /\ model_info' \in ModelInfos
          /\ gpc' = "cards"
          /\ UNCHANGED config
    /\ UNCHANGED <<cards_total, cards_seen, loras_info>>

\* Mutant of NextCard: a card without a name is listed as well.
NextCardKeepsUnnamed ==
    /\ gpc = "cards"
    /\ cards_seen < cards_total
    /\ Len(loras_info) < LoraLimit
    /\ \E raw \in RawCardNames :
          loras_info' = Append(loras_info,
                               [name |-> Strip(raw), weight |-> "0.7"])
    /\ cards_seen' = cards_seen + 1
    /\ UNCHANGED <<gpc, cards_total, model_info, config>>

\* Lines 1334-1366, one card: its name is trimmed; a card without a name
\* is skipped (1338); else name and weight are listed, and the loop ends
\* with the 15th entry (1365).
NextCard ==
    /\ gpc = "cards"
    /\ cards_seen < cards_total
    /\ Len(loras_info) < LoraLimit
    /\ \E raw \in RawCardNames :
          LET name == Strip(raw)
          IN  loras_info' =
                  IF name = <<>> THEN loras_info
                  ELSE Append(loras_info, [name |-> name, weight |-> "0.7"])
    /\ cards_seen' = cards_seen + 1
    /\ UNCHANGED <<gpc, cards_total, model_info, config>>

\* Lines 1325-1390: the second script returns its list, or raises; a list
\* of more than 15 is cut (1371-1372); without model header the model is
\* 'unknown_model' (1374-1375), else the two texts that were read.
ReturnConfig ==
    /\ gpc = "cards"
    /\ \/ ReturnError
       \/ /\ cards_seen = cards_total \/ Len(loras_info) >= LoraLimit
          /\ gpc' = "returned"
          /\ LET cut == IF Len(loras_info) > LoraLimit
                          THEN SubSeq(loras_info, 1, LoraLimit)
                          ELSE loras_info
             IN  config' =
                     IF model_info.header = "absent"
                       THEN [model_name |-> "unknown_model",
                             model_version |-> "unknown_version",
                             loras |-> cut]
                       ELSE [model_name |-> model_info.model_name,
                             model_version |-> model_info.model_version,
                             loras |-> cut]
    /\ UNCHANGED <<cards_total, cards_seen, model_info, loras_info>>

NextConfig ==
    \/ ReadModel /\ UNCHANGED otherThanConfig
    \/ NextCard /\ UNCHANGED otherThanConfig
    \/ ReturnConfig /\ UNCHANGED otherThanConfig

SpecConfig == InitConfig /\ [][NextConfig]_vars

----------------------------------------------------------------------------
(***************************************************************************)
(* App._parse_lora_string (src/gui.py lines 685-704) and the use set_loras *)
(* makes of the weights (src/crawler.py lines 1101-1105).                  *)
(***************************************************************************)

\* The longest LoRA entry text.
MaxLen == 5

\* The characters of the entry: a letter, a digit, the point, the blank and
\* the two delimiters.
Chars == {"a", "7", ".", " ", ":", ","}

\* str.split(sep): the pieces between the separators, empty ones included.
RECURSIVE Split(_, _)
Split(s, sep) ==
    IF \A k \in 1..Len(s) : s[k] # sep THEN <<s>>
    ELSE LET first == CHOOSE k \in 1..Len(s) :
                          s[k] = sep /\ \A j \in 1..(k - 1) : s[j] # sep
         IN  <<SubSeq(s, 1, first - 1)>>
                 \o Split(SubSeq(s, first + 1, Len(s)), sep)

\* Line 691: the stripped pieces that are not empty.
NotEmpty(s) == s # <<>>
LoraParts(s) ==
    LET pieces == Split(s, ",")
    IN  SelectSeq([k \in 1..Len(pieces) |-> Strip(pieces[k])], NotEmpty)

\* float(s) succeeds, for the characters in use: around blanks, digits
\* with at most one point and at least one digit.
IsFloat(s) ==
    LET t == Strip(s)
    IN  /\ t # <<>>
        /\ \A k \in 1..Len(t) : t[k] \in {"7", "."}
        /\ \E k \in 1..Len(t) : t[k] = "7"
        /\ \A j, k \in 1..Len(t) : (t[j] = "." /\ t[k] = ".") => j = k

\* The value None of the key 'weight'.
None == <<"None">>

\* Mutant of ParsePart: the part is split at its first colon.
ParsePartAtFirstColon(part) ==
    IF \E k \in 1..Len(part) : part[k] = ":"
      THEN LET colon == CHOOSE k \in 1..Len(part) :
                            part[k] = ":"
                              /\ \A j \in 1..(k - 1) : part[j] # ":"
               name == SubSeq(part, 1, colon - 1)
               weight_str == SubSeq(part, colon + 1, Len(part))
           IN  IF IsFloat(weight_str)
                 THEN [name |-> Strip(name), weight |-> Strip(weight_str)]
                 ELSE [name |-> part, weight |-> None]
      ELSE [name |-> part, weight |-> None]

\* Lines 693-703: a part with a colon is split at its last colon
\* (rpartition); if the text after it is a float, name and weight are the
\* two stripped sides, else the whole part is the name, without weight.
ParsePart(part) ==
    IF \E k \in 1..Len(part) : part[k] = ":"
      THEN LET colon == CHOOSE k \in 1..Len(part) :
                            part[k] = ":"
                              /\ \A j \in (k + 1)..Len(part) : part[j] # ":"
               name == SubSeq(part, 1, colon - 1)
               weight_str == SubSeq(part, colon + 1, Len(part))
           IN  IF IsFloat(weight_str)
                 THEN [name |-> Strip(name), weight |-> Strip(weight_str)]
                 ELSE [name |-> part, weight |-> None]
      ELSE [name |-> part, weight |-> None]

\* Lines 687-704.
ParseLoraString(s) ==
    IF s = <<>> THEN <<>>
    ELSE LET parts == LoraParts(s)
         IN  [k \in 1..Len(parts) |-> ParsePart(parts[k])]

InitParse ==
    /\ DoneIdle
    /\ LoginIdle
    /\ WeightsIdle
    /\ RemoveIdle
    /\ SessionReady
    /\ MacroIdle
    /\ ManagerReady
    /\ CommandsIdle
    /\ ReconcileIdle
    /\ SetLorasIdle
    /\ CascadeIdle
    /\ ConfigIdle
    /\ ppc = "call"
    /\ lora_str \in SeqsUpTo(Chars, MaxLen)
    /\ loras_with_weights = <<>>
    /\ weight_fields = {}

\* The call: src/gui.py line 734.
ParseCall ==
    /\ ppc = "call"
    /\ loras_with_weights' = ParseLoraString(lora_str)
    /\ ppc' = "parsed"
    /\ UNCHANGED <<lora_str, weight_fields>>

\* src/crawler.py lines 1101-1105: set_loras fills the weight field of an
\* entry only if its weight is not None.
SetWeights ==
    /\ ppc = "parsed"
    /\ weight_fields' = {k \in 1..Len(loras_with_weights) :
                            loras_with_weights[k].weight # None}
    /\ ppc' = "applied"
    /\ UNCHANGED <<lora_str, loras_with_weights>>

NextParse ==
    \/ ParseCall /\ UNCHANGED otherThanParse
    \/ SetWeights /\ UNCHANGED otherThanParse

SpecParse == InitParse /\ [][NextParse]_vars

----------------------------------------------------------------------------
(***************************************************************************)
(* The first part of PixaiCrawler.set_loras (src/crawler.py lines 973-989) *)
(* with get_active_loras (891-899) and remove_lora (817-866).  The page    *)
(* holds the cards of the active LoRAs; a click on a card's remove button   *)
(* that returns has removed the card.  Any call to the page may raise.     *)
(***************************************************************************)

\* The LoRA cards a page can hold: up to MaxLoras different names.
PageLoras ==
    {cards \in SeqsUpTo(LoraNames, MaxLoras) :
        \A i, j \in 1..Len(cards) : cards[i] = cards[j] => i = j}

\* The page without the card of lora_name.
RECURSIVE Without(_, _)
Without(cards, lora_name) ==
    IF cards = <<>> THEN <<>>
    ELSE IF Head(cards) = lora_name THEN Without(Tail(cards), lora_name)
    ELSE <<Head(cards)>> \o Without(Tail(cards), lora_name)

\* One tier of remove_lora and whether its click call returned.
Tier(name, ok) == [tier |-> name, ok |-> ok]

InitRemove ==
    /\ DoneIdle
    /\ LoginIdle
    /\ WeightsIdle
    /\ ParseIdle
    /\ ConfigIdle
    /\ CascadeIdle
    /\ SetLorasIdle
    /\ SessionReady
    /\ MacroIdle
    /\ ManagerReady
    /\ CommandsIdle
    /\ ReconcileIdle
    /\ rmpc = "begin"
    /\ page_loras \in PageLoras
    /\ loras_empty \in BOOLEAN
    /\ active_lora_names = <<>>
    /\ lora_pos = 0
    /\ tiers = <<>>
    /\ remove_raised = FALSE
    /\ panel_opened = FALSE
    /\ removal_result = "none"

\* Lines 975-981 with 891-899 and 1391-1393: get_active_loras returns the
\* names of the cards get_active_config read, or [] when reading the page
\* raised (the error is logged, not raised).  With names the loop of 977
\* starts, without the removal is skipped.
GetActiveLoras ==
    /\ rmpc = "begin"
    /\ \/ active_lora_names' = page_loras
       \/ active_lora_names' = <<>>
    /\ IF active_lora_names' # <<>>
         THEN rmpc' = "remove_lora" /\ lora_pos' = 1
         ELSE rmpc' = "not_loras" /\ UNCHANGED lora_pos
    /\ UNCHANGED <<page_loras, loras_empty, tiers, remove_raised,
                   panel_opened, removal_result>>

\* Lines 817-828 for active_lora_names[lora_pos]: the card of the name is
\* awaited for 3 s; without it the handler of 842 takes over.
LocateCard ==
    /\ rmpc = "remove_lora"
    /\ tiers' = <<>>
    /\ \/ rmpc' = "plain_click"
       \/ rmpc' = "js_click"
    /\ UNCHANGED <<page_loras, loras_empty, active_lora_names, lora_pos,
                   remove_raised, panel_opened, removal_result>>

\* Lines 831-835: the plain click.
PlainClick ==
    /\ rmpc = "plain_click"
    /\ \/ /\ tiers' = Append(tiers, Tier("plain", TRUE))
          /\ page_loras' = Without(page_loras, active_lora_names[lora_pos])
          /\ rmpc' = "settle"
       \/ /\ tiers' = Append(tiers, Tier("plain", FALSE))
          /\ rmpc' = "forced_click"
          /\ UNCHANGED page_loras
    /\ UNCHANGED <<loras_empty, active_lora_names, lora_pos, remove_raised,
                   panel_opened, removal_result>>

\* Lines 836-837: the forced click, in the handler of the plain one; its
\* error goes to the handler of 842.
ForcedClick ==
    /\ rmpc = "forced_click"
    /\ \/ /\ tiers' = Append(tiers, Tier("forced", TRUE))
          /\ page_loras' = Without(page_loras, active_lora_names[lora_pos])
          /\ rmpc' = "settle"
       \/ /\ tiers' = Append(tiers, Tier("forced", FALSE))
          /\ rmpc' = "js_click"
          /\ UNCHANGED page_loras
    /\ UNCHANGED <<loras_empty, active_lora_names, lora_pos, remove_raised,
                   panel_opened, removal_result>>

\* Line 840: the wait of 0.5 s after a click, still inside the try of 819.
Settle ==
    /\ rmpc = "settle"
    /\ \/ rmpc' = "removed"
       \/ rmpc' = "js_click"
    /\ UNCHANGED <<page_loras, loras_empty, active_lora_names, lora_pos,
                   tiers, remove_raised, panel_opened, removal_result>>

\* Lines 842-866: the script looks for a card whose name is exactly
\* lora_name and clicks its second button.  Whether it found one (true) or
\* not (false), remove_lora returns; an error of the script is raised
\* (866) and set_loras re-raises it (1165-1167).
JsClick ==
    /\ rmpc = "js_click"
    /\ \/ /\ tiers' = Append(tiers, Tier("dom", TRUE))
          /\ \/ page_loras' = Without(page_loras, active_lora_names[lora_pos])
             \/ UNCHANGED page_loras
          /\ rmpc' = "removed"
          /\ UNCHANGED <<remove_raised, removal_result>>
       \/ /\ tiers' = Append(tiers, Tier("dom", FALSE))
          /\ remove_raised' = TRUE
          /\ removal_result' = "raised"
          /\ rmpc' = "ended"
          /\ UNCHANGED page_loras
    /\ UNCHANGED <<loras_empty, active_lora_names, lora_pos, panel_opened>>

\* Lines 977-979: remove_lora returned; the next name, or the loop is over.
NextLora ==
    /\ rmpc = "removed"
    /\ IF lora_pos < Len(active_lora_names)
         THEN rmpc' = "remove_lora" /\ lora_pos' = lora_pos + 1
         ELSE rmpc' = "not_loras" /\ UNCHANGED lora_pos
    /\ UNCHANGED <<page_loras, loras_empty, active_lora_names, tiers,
                   remove_raised, panel_opened, removal_result>>

\* Lines 982-984: an empty desired list returns "".
ReturnEmpty ==
    /\ rmpc = "not_loras"
    /\ loras_empty
    /\ removal_result' = "empty"
    /\ rmpc' = "ended"
    /\ UNCHANGED <<page_loras, loras_empty, active_lora_names, lora_pos,
                   tiers, remove_raised, panel_opened>>

\* Lines 986-989: the panel button is clicked, which may raise; the search
\* of the desired LoRAs follows.
OpenPanel ==
    /\ rmpc = "not_loras"
    /\ ~loras_empty
    /\ \/ panel_opened' = TRUE /\ removal_result' = "panel"
       \/ removal_result' = "raised" /\ UNCHANGED panel_opened
    /\ rmpc' = "ended"
    /\ UNCHANGED <<page_loras, loras_empty, active_lora_names, lora_pos,
                   tiers, remove_raised>>

NextRemove ==
    \/ GetActiveLoras /\ UNCHANGED otherThanRemove
    \/ LocateCard /\ UNCHANGED otherThanRemove
    \/ PlainClick /\ UNCHANGED otherThanRemove
    \/ ForcedClick /\ UNCHANGED otherThanRemove
    \/ Settle /\ UNCHANGED otherThanRemove
    \/ JsClick /\ UNCHANGED otherThanRemove
    \/ NextLora /\ UNCHANGED otherThanRemove
    \/ ReturnEmpty /\ UNCHANGED otherThanRemove
    \/ OpenPanel /\ UNCHANGED otherThanRemove

SpecRemove == InitRemove /\ [][NextRemove]_vars

----------------------------------------------------------------------------
(***************************************************************************)
(* The last part of PixaiCrawler.set_loras (src/crawler.py lines           *)
(* 1095-1167): the selection is confirmed, the weight fields are filled    *)
(* and the trigger words are read.  Any call to the page may raise.        *)
(***************************************************************************)

\* The longest desired list in this part.
MaxWeights == 3

\* The weights _parse_lora_string gives: None or the text of a float.
WeightLists == SeqsUpTo({"None", "0.8"}, MaxWeights) \ {<<>>}

\* One attempt on a weight field: for which LoRA, by the lookup of the
\* card's own field ("primary", 1110-1125) or by the scan of all cards
\* ("secondary", 1135-1148), and whether it raised.
FieldAction(k, step, ok) == [lora |-> k, step |-> step, ok |-> ok]

InitWeights ==
    /\ DoneIdle
    /\ LoginIdle
    /\ RemoveIdle
    /\ ParseIdle
    /\ ConfigIdle
    /\ CascadeIdle
    /\ SetLorasIdle
    /\ SessionReady
    /\ MacroIdle
    /\ ManagerReady
    /\ CommandsIdle
    /\ ReconcileIdle
    /\ wpc = "confirm"
    /\ lora_weights \in WeightLists
    /\ weight_pos = 0
    /\ field_actions = <<>>
    /\ weights_end = "none"
    /\ raised_at = "none"

\* The call ends by the re-raise of 1165-1167.
WeightsRaise(step) ==
    /\ wpc' = "ended"
    /\ weights_end' = "raised"
    /\ raised_at' = step

\* Lines 1096-1098: the confirm button is clicked.
ConfirmClick ==
    /\ wpc = "confirm"
    /\ \/ WeightsRaise("confirm")
       \/ wpc' = "next_lora" /\ UNCHANGED <<weights_end, raised_at>>
    /\ UNCHANGED <<lora_weights, weight_pos, field_actions>>

\* Lines 1101-1105: the next LoRA of the list; one whose weight is None is
\* passed over; after the last the loop is over.
NextWeight ==
    /\ wpc = "next_lora"
    /\ IF weight_pos = Len(lora_weights)
         THEN wpc' = "read" /\ UNCHANGED weight_pos
         ELSE /\ weight_pos' = weight_pos + 1
              /\ wpc' = IF lora_weights[weight_pos + 1] # "None"
                          THEN "primary" ELSE "next_lora"
    /\ UNCHANGED <<lora_weights, field_actions, weights_end, raised_at>>

\* Lines 1107-1130: the field of the LoRA's own card is awaited, clicked
\* and filled; an error of any of these is logged at 1130.
PrimaryFill ==
    /\ wpc = "primary"
    /\ \E ok \in BOOLEAN :
          /\ field_actions' =
                Append(field_actions, FieldAction(weight_pos, "primary", ok))
          /\ wpc' = IF ok THEN "next_lora" ELSE "secondary"
    /\ UNCHANGED <<lora_weights, weight_pos, weights_end, raised_at>>

\* Mutant of SecondaryScan: its error ends the call.
SecondaryScanRaises ==
    /\ wpc = "secondary"
    /\ \E ok \in BOOLEAN :
          /\ field_actions' =
                Append(field_actions,
                       FieldAction(weight_pos, "secondary", ok))
          /\ IF ok
               THEN wpc' = "next_lora" /\ UNCHANGED <<weights_end, raised_at>>
               ELSE WeightsRaise("weight")
    /\ UNCHANGED <<lora_weights, weight_pos>>

\* Lines 1132-1150: all cards are gone through and the field of the first
\* whose text contains the name is filled; an error is logged at 1150.
SecondaryScan ==
    /\ wpc = "secondary"
    /\ \E ok \in BOOLEAN :
          field_actions' =
              Append(field_actions, FieldAction(weight_pos, "secondary", ok))
    /\ wpc' = "next_lora"
    /\ UNCHANGED <<lora_weights, weight_pos, weights_end, raised_at>>

\* Lines 1153-1163: after 0.5 s the prompt field is awaited and its text
\* returned as the trigger words.
ReadPrompt ==
    /\ wpc = "read"
    /\ \/ WeightsRaise("read")
       \/ /\ wpc' = "ended"
          /\ weights_end' = "returned"
          /\ UNCHANGED raised_at
    /\ UNCHANGED <<lora_weights, weight_pos, field_actions>>

NextWeights ==
    \/ ConfirmClick /\ UNCHANGED otherThanWeight
    \/ NextWeight /\ UNCHANGED otherThanWeight
    \/ PrimaryFill /\ UNCHANGED otherThanWeight
    \/ SecondaryScan /\ UNCHANGED otherThanWeight
    \/ ReadPrompt /\ UNCHANGED otherThanWeight

SpecWeights == InitWeights /\ [][NextWeights]_vars

----------------------------------------------------------------------------
(***************************************************************************)
(* PixaiCrawler._is_logged_in (src/crawler.py lines 225-246) on any cookie *)
(* store: the two authentication cookies among others.                     *)
(***************************************************************************)

\* The cookies a context can hold besides the two that are tested.
OtherCookies == {"_ga", "locale", "theme"}

InitLogin ==
    /\ DoneIdle
    /\ WeightsIdle
    /\ RemoveIdle
    /\ ParseIdle
    /\ ConfigIdle
    /\ CascadeIdle
    /\ SetLorasIdle
    /\ SessionReady
    /\ MacroIdle
    /\ ManagerReady
    /\ CommandsIdle
    /\ ReconcileIdle
    /\ lpc = "call"
    /\ context_cookies \in SUBSET (CookieNames \cup OtherCookies)
    /\ cookie_names = {}
    /\ cookies_failed = FALSE
    /\ logged_in = "none"

\* Lines 230-233 and 244-246: the cookies of the context are read and their
\* names collected; an error of the read is logged and False returned.
ReadCookies ==
    /\ lpc = "call"
    /\ \/ /\ cookie_names' = context_cookies
          /\ lpc' = "test"
          /\ UNCHANGED <<cookies_failed, logged_in>>
       \/ /\ cookies_failed' = TRUE
          /\ logged_in' = "False"
          /\ lpc' = "returned"
          /\ UNCHANGED cookie_names
    /\ UNCHANGED context_cookies

\* Lines 234-243: has_token and has_expire_at.
TestCookies ==
    /\ lpc = "test"
    /\ logged_in' = IF IsLoggedIn(cookie_names) THEN "True" ELSE "False"
    /\ lpc' = "returned"
    /\ UNCHANGED <<context_cookies, cookie_names, cookies_failed>>

NextLogin ==
    \/ ReadCookies /\ UNCHANGED otherThanLogin
    \/ TestCookies /\ UNCHANGED otherThanLogin

SpecLogin == InitLogin /\ [][NextLogin]_vars

----------------------------------------------------------------------------
(***************************************************************************)
(* CrawlerManager.start and its on_done callback (src/gui.py lines         *)
(* 65-100), as the App uses them: start_crawler (1736-1743) and the        *)
(* restart_task of on_headless_toggle (1707-1720), which calls stop() and  *)
(* then start().  The actions of the lifecycle above, with the calls and   *)
(* the callbacks counted.                                                  *)
(***************************************************************************)

\* start(), lines 65-100, when it starts a thread.
StartCall ==
    /\ ManagerStart
    /\ start_calls' = start_calls + 1
    /\ UNCHANGED on_done_calls

\* start(), lines 66-67, called by restart_task after stop() has returned
\* from a join that timed out (204): the thread is alive, start returns.
StartReturnsAtOnce ==
    /\ thread = "alive"
    /\ loop = "stop_requested"
    /\ stop_pc = "idle"
    /\ start_calls < MaxStarts
    /\ start_calls' = start_calls + 1
    /\ UNCHANGED <<on_done_calls, sessionVars, managerVars>>

\* _thread_target, lines 80-90: whether __aenter__ returned or raised, the
\* finally clause sets ready and calls on_done with the exception or None.
OnDone ==
    /\ ThreadAfterEnter
    /\ on_done_calls' = on_done_calls + 1
    /\ UNCHANGED start_calls

\* The steps the threads take by themselves; the user is taken to close
\* the browser of a first-time setup in the end.
RestartSystem ==
    \/ VerifyEntry /\ UNCHANGED otherThanSession
    \/ VerifyLaunch /\ UNCHANGED otherThanSession
    \/ VerifyIsLoggedIn /\ UNCHANGED otherThanSession
    \/ VerifyInvalidClose /\ UNCHANGED otherThanSession
    \/ VerifyInvalidStop /\ UNCHANGED otherThanSession
    \/ VerifyInvalidRmtree /\ UNCHANGED otherThanSession
    \/ VerifyExceptClose /\ UNCHANGED otherThanSession
    \/ VerifyExceptStop /\ UNCHANGED otherThanSession
    \/ VerifyExceptRmtree /\ UNCHANGED otherThanSession
    \/ VerifyFinally /\ UNCHANGED otherThanSession
    \/ CheckFirstTime /\ UNCHANGED otherThanSession
    \/ SetupLaunch /\ UNCHANGED otherThanSession
    \/ SetupPage /\ UNCHANGED otherThanSession
    \/ SetupWaitClose /\ UNCHANGED otherThanSession
    \/ SetupExit /\ UNCHANGED otherThanSession
    \/ SetupExcept /\ UNCHANGED otherThanSession
    \/ RealStart /\ UNCHANGED otherThanSession
    \/ RealLaunch /\ UNCHANGED otherThanSession
    \/ RealIsLoggedIn /\ UNCHANGED otherThanSession
    \/ RealFailClose /\ UNCHANGED otherThanSession
    \/ RealFailStop /\ UNCHANGED otherThanSession
    \/ RealFailRmtree /\ UNCHANGED otherThanSession
    \/ RealExcept /\ UNCHANGED otherThanSession
    \/ OnDone /\ UNCHANGED otherThanDone
    \/ ShutdownClose /\ UNCHANGED otherThanLifecycle
    \/ ShutdownStop /\ UNCHANGED otherThanLifecycle
    \/ StopWaitReturns /\ UNCHANGED otherThanLifecycle
    \/ StopWaitTimeout /\ UNCHANGED otherThanLifecycle
    \/ ThreadFailedExit /\ UNCHANGED otherThanLifecycle
    \/ ThreadLoopExit /\ UNCHANGED otherThanLifecycle
    \/ StopJoin /\ UNCHANGED otherThanLifecycle
    \/ AbandonedDriverExits /\ UNCHANGED otherThanLifecycle

NextRestart ==
    \/ RestartSystem
    \/ StartCall /\ UNCHANGED otherThanDone
    \/ StartReturnsAtOnce /\ UNCHANGED otherThanDone
    \/ ManagerStop /\ UNCHANGED otherThanLifecycle
    \/ UserLogin /\ UNCHANGED otherThanSession

\* Every thread goes on with what it can do: the crawler thread, the loop
\* and the thread inside stop().
SpecRestart ==
    /\ InitLifecycle
    /\ [][NextRestart]_vars
    /\ WF_vars(RestartSystem)

----------------------------------------------------------------------------
(***************************************************************************)
(* Commands called on a manager that is not ready: before start() was      *)
(* called, while __aenter__ runs, and after it raised (src/gui.py lines    *)
(* 102-177 and 848-851 against 65-97).  No task of such a call ever runs:  *)
(* the loop of a failed start never runs, and a later start makes a new    *)
(* loop.                                                                   *)
(***************************************************************************)

\* A wrapper is called while ready is not set or start_exception is set.
EarlyCall(c, k) ==
    /\ ~ready \/ start_exception
    /\ CallCommand(c, k)

NextEarlyCalls ==
    \/ NextLifecycle
    \/ (\E c \in Cmds, k \in Kinds : EarlyCall(c, k))
          /\ UNCHANGED otherThanCommands
    \/ (\E c \in Cmds : Timeout(c)) /\ UNCHANGED otherThanCommands

SpecEarlyCalls == InitLifecycle /\ [][NextEarlyCalls]_vars

----------------------------------------------------------------------------
(***************************************************************************)
(* Session claims, checked under SpecSession.                              *)
(***************************************************************************)

\* C1: a call of __aenter__ that started on an existing profile whose cookies
\* do not hold both user_token and user_token_expire_at returns the crawler
\* only if _run_first_time_setup was invoked earlier in that call.
C1_NoReturnWithoutSetup ==
    (lacking /\ outcome = "returned") => setupInvoked

\* C1 witness: such a call did return, after the invalid profile was deleted
\* and the user logged in during the first-time setup.
C1_Witness ==
    /\ lacking /\ outcome = "returned" /\ setupInvoked
    /\ "verify_invalid" \in rmPaths

\* C2 (as claimed): whenever __aenter__ has failed because the final login
\* check failed, the real context is closed and the profile directory no
\* longer exists.
C2_FinalCheckFailureDeletesProfile ==
    (outcome = "raised" /\ failReason = "final")
        => (~dirExists /\ "real" \notin ctxOpen)

\* C3 (as claimed): whenever __aenter__ has failed with a session error (the
\* first-time setup, the launch or navigation of the real context, or the
\* final login check, each possibly after a failed validity check), the
\* profile directory has been deleted.
C3_SessionErrorDeletesProfile ==
    (outcome = "raised" /\ failReason \in {"setup", "launch", "final"})
        => ~dirExists

\* C4: shutil.rmtree of the profile is never called while a browser context
\* opened on that profile is still open: every close precedes the delete.
C4_CloseBeforeDelete == ~rmWhileOpen

\* C4 witness: the profile was deleted on the invalid-session path, after the
\* throwaway context had been opened on it and closed again.
C4_Witness ==
    /\ "verify_invalid" \in rmPaths
    /\ ~dirExists
    /\ pc = "v_finally"

\* C5 (as claimed): when __aenter__ re-raises a failure of the first-time
\* setup, no profile directory created by that attempt is left on disk.
C5_SetupFailureDeletesProfile ==
    (outcome = "raised" /\ failReason = "setup") => ~dirExists

\* _verify_login_and_cleanup has returned to __aenter__.
VerifyEnded == pc = "s_check"

\* C6 (as claimed): when _verify_login_and_cleanup ends, a logged-out verdict
\* or an error has closed the throwaway context and deleted the directory; a
\* logged-in verdict has closed the context and kept the profile; an absent
\* directory has launched and deleted nothing.
C6_VerifyOutcome ==
    VerifyEnded =>
        /\ vVerdict \in {"invalid", "error"}
              => ("tmp" \notin ctxOpen /\ ~dirExists)
        /\ vVerdict = "valid"
              => ("tmp" \notin ctxOpen /\ dirExists /\ IsLoggedIn(cookies))
        /\ vVerdict = "absent"
              => (rmPaths = {} /\ pwRunning = {} /\ ctxOpen = {})

----------------------------------------------------------------------------
(***************************************************************************)
(* image_gen_macro claims, checked under SpecMacro.                        *)
(***************************************************************************)

\* The responses of this call that match IMG_PATTERN (N of them), the
\* distinct URLs among them (N - M of them), and the save attempts: the tasks
\* that passed the test of line 1182.
MatchingTasks == {t \in Tasks : Matches(save_tasks[t].url)}
DistinctUrls == {save_tasks[t].url : t \in MatchingTasks}
Attempts == {t \in Tasks : save_tasks[t].st \in {"body", "saved", "failed"}}
FailedAttempts == {t \in Tasks : save_tasks[t].st = "failed"}
AllFinished == \A t \in Tasks : Finished(t)

\* The entries of saved_files written by _handle_response.
NetworkFiles == SelectSeq(saved_files, LAMBDA f : f # FallbackPath)

\* C7 (as claimed): once the handlers of N matching responses, M of them with
\* a URL already seen, have run, exactly N - M artifacts are saved.
C7_ExactlyDistinctSaved ==
    AllFinished => Len(NetworkFiles) = Cardinality(DistinctUrls)

\* C7 (amended): every distinct matching URL is recorded as seen and gets
\* exactly one save attempt, a response whose URL was already seen is skipped
\* without an attempt, and once the handlers have run the saved artifacts
\* number N - M less the attempts that failed.
C7_DedupOneAttemptPerUrl ==
    /\ \A u \in Urls :
          Cardinality({t \in Attempts : save_tasks[t].url = u}) <= 1
    /\ saved_urls = {save_tasks[t].url : t \in Attempts}
    /\ \A t \in MatchingTasks :
          save_tasks[t].st = "skipped" => save_tasks[t].url \in saved_urls
    /\ AllFinished =>
          /\ Cardinality(Attempts) = Cardinality(DistinctUrls)
          /\ Len(NetworkFiles) =
                Cardinality(DistinctUrls) - Cardinality(FailedAttempts)

\* C7 witness: two matching responses with the same URL (N = 2, M = 1) have
\* been handled and one artifact is saved.
C7_Witness ==
    /\ AllFinished
    /\ Cardinality(MatchingTasks) = 2
    /\ Cardinality(DistinctUrls) = 1
    /\ Len(NetworkFiles) = 1
    /\ mpc = "returned"

\* C8 (as claimed): under every interleaving of the save handlers, no two
\* saved responses share an output path and no existing file is overwritten.
C8_UniqueOutputPaths ==
    /\ ~overwrote
    /\ \A t1, t2 \in Tasks :
          (t1 # t2 /\ save_tasks[t1].st = "saved" /\ save_tasks[t2].st = "saved")
              => save_tasks[t1].outpath # save_tasks[t2].outpath

\* C9 (as claimed): when image_gen_macro has returned, every save task its
\* listener spawned has finished.
C9_TasksJoinedAtReturn == mpc = "returned" => AllFinished

\* C10: when image_gen_macro has returned, by the normal, the fallback or the
\* error path, its response listener is no longer registered on the page.
C10_ListenerRemoved == mpc = "returned" => ~listening

\* C10 witness: the call returned None through the error handler after the
\* listener had been handed a response, and the listener is gone.
C10_Witness ==
    /\ mpc = "returned"
    /\ result = "None"
    /\ save_tasks # <<>>
    /\ ~listening

\* C11: in the wait loop, a poll that finds the count of seen URLs changed
\* restarts the idle clock; once a URL has been seen the loop never stays
\* past a poll at which more than IDLE_WAIT has passed since that restart;
\* and the loop ends before the ceiling only at such a poll.
C11_IdleCompletion ==
    /\ [](mpc = "wait" /\ prev_count > 0
            => (polls - last_seen) * POLL_SLEEP <= IDLE_WAIT)
    /\ [][ /\ (mpc = "wait" /\ polls' = polls + 1
                 /\ Cardinality(saved_urls) # prev_count)
               => last_seen' = polls'
           /\ (mpc = "wait" /\ mpc' \in {"gathering", "fallback"}
                 /\ polls' * POLL_SLEEP < TOTAL_TIMEOUT)
               => /\ saved_urls # {}
                  /\ (polls' - last_seen') * POLL_SLEEP > IDLE_WAIT
                  /\ (polls' - 1 - last_seen') * POLL_SLEEP <= IDLE_WAIT
         ]_vars

\* C11 witness: two URLs, the second noticed at the poll of t = 1.0 s or of
\* t = 1.5 s, and the loop left at the first poll more than 3 s later
\* (t = 4.5 s or 5.0 s), far from the ceiling.
C11_Witness ==
    /\ mpc = "gathering"
    /\ prev_count = 2
    /\ last_seen \in {2, 3}
    /\ (polls - last_seen) * POLL_SLEEP = IDLE_WAIT + POLL_SLEEP

\* C12 (as claimed): in the wait loop, a toast that appeared once has been
\* answered by exactly one resubmission, and no toast by none.
C12_OneResubmission ==
    mpc = "wait" =>
        /\ toasts = 1 => resubmits = 1
        /\ toasts = 0 => resubmits = 0

\* C13 (as claimed): after the toast has appeared a second time, following
\* the resubmission, the call does not enter the wait loop or what follows
\* it, and does not return a list of files.
C13_SecondToastFatal ==
    toasts = 2 =>
        /\ mpc \notin {"wait", "gathering", "fallback"}
        /\ result # "list"

\* C14 (as claimed): after the wait loop and the join the fallback is
\* attempted exactly when saved_files is empty, and a call that returns with
\* the fallback screenshot taken returns that path and nothing else.
C14_FallbackIffNothingSaved ==
    [][ /\ (mpc \in {"wait", "gathering"} /\ mpc' \in {"fallback", "returned"}
                 /\ result' # "cancelled")
               => (mpc' = "fallback" <=> saved_files = <<>>)
        /\ (mpc = "fallback" /\ mpc' = "returned" /\ result' = "list"
                 /\ saved_files' # saved_files)
               => saved_files' = <<FallbackPath>>
      ]_vars

\* C15: run_image_macro hands its caller a list only with at least one path
\* in it, and when image_gen_macro ended with nothing saved, the network
\* saves and the fallback screenshot both having failed, the caller gets the
\* failure value None and no list.
C15_EmptyResultIsFailure ==
    /\ [](image_paths.kind = "list" => image_paths.files # <<>>)
    /\ [][ (image_paths.kind = "unset" /\ image_paths'.kind # "unset"
              /\ result = "list" /\ saved_files = <<>>)
            => image_paths'.kind = "None" ]_vars

\* C15 witness: the call returned its empty list after a failed fallback and
\* the caller of run_image_macro got None.
C15_Witness ==
    /\ mpc = "returned"
    /\ result = "list"
    /\ saved_files = <<>>
    /\ image_paths.kind = "None"

----------------------------------------------------------------------------
(***************************************************************************)
(* CrawlerManager claims, checked under SpecCommands.                      *)
(***************************************************************************)

\* The commands whose coroutine has started on the loop and has not ended.
InProgress == {c \in Cmds : commands[c].task = "running"}

\* C16 (as claimed): commands run one at a time: no command's operations
\* start while those of a command submitted earlier are still in progress.
C16_CommandsSerialized == Cardinality(InProgress) <= 1

\* C17 (as claimed): a caller whose timeout expired got the error with its
\* future cancelled, whatever the command, and neither the expiry nor the
\* cancellation takes back an operation that is in flight in the browser.
C17_TimeoutCancelsFuture ==
    /\ [](\A c \in Cmds : commands[c].caller = "timed_out"
                              => commands[c].future = "cancelled")
    /\ [][ (\E c \in Cmds :
               \/ commands[c].caller # "timed_out"
                    /\ commands'[c].caller = "timed_out"
               \/ commands[c].task # "cancelled"
                    /\ commands'[c].task = "cancelled")
            => browser_ops' = browser_ops ]_vars

\* C18 (as claimed): across start, stop and restart at most one browser
\* context is open on the profile, and launch_persistent_context is never
\* called on it while a context launched by an earlier start is still open.
C18_OneContextOnProfile ==
    /\ [](Cardinality(ctxOpen) + (IF orphan THEN 1 ELSE 0) <= 1)
    /\ [][ (pc \in {"v_launch", "fts_launch", "r_launch"} /\ pc' # pc)
            => ~orphan ]_vars

----------------------------------------------------------------------------
(***************************************************************************)
(* Reconciliation claims, checked under SpecReconcile.                     *)
(***************************************************************************)

\* How often name n occurs in a list of names.
Occurrences(n, names) ==
    Cardinality({i \in 1..Len(names) : names[i] = n})

\* The active LoRA names are the desired ones in some order.
SameNamesAnyOrder ==
    \A n \in LoraNames :
        Occurrences(n, Names(target_loras))
            = Occurrences(n, Names(active_config.loras))

\* The active configuration has been read.
ActiveRead == rpc \in {"compare", "model_set", "done"}

\* C19: once the active configuration is read and found to have the desired
\* model name and version and the desired LoRA names in some order, no
\* configuration command is run, neither set_model nor set_loras.
C19_NoCommandWhenEqual ==
    (/\ ActiveRead
     /\ active_config.model_name = target_model_name
     /\ active_config.model_version = target_model_version
     /\ SameNamesAnyOrder)
        => issued = <<>>

\* C19 witness: the task is past the comparison with the desired LoRAs
\* active in another order, and ran nothing.
C19_Witness ==
    /\ rpc = "done"
    /\ ModelMatch(active_config)
    /\ SameNamesAnyOrder
    /\ Names(target_loras) # Names(active_config.loras)
    /\ issued = <<>>

\* Steps 1-3 have ended, by reaching step 4 or by an error.
ReconcileEnded == rpc \in {"done", "failed"}

\* The active model was read and differs from the desired one.
ModelDiffers ==
    /\ rpc \in {"model_set", "done"} \/ (rpc = "failed" /\ issued # <<>>)
    /\ ~ModelMatch(active_config)

\* C20 (as claimed): when the active model differs, reconciliation has run
\* set_model and then set_loras with the desired list by the time it ends.
C20_ModelChangeReappliesLoras ==
    (ReconcileEnded /\ ModelDiffers)
        => /\ Len(issued) = 2
           /\ issued[1].cmd = "set_model"
           /\ issued[2].cmd = "set_loras"
           /\ issued[2].arg = target_loras

\* C20 (amended): when the active model differs, set_model is run first
\* with the desired name and version; if it returns, set_loras is run next
\* with the whole desired list, whether or not the LoRA names matched; if
\* it raises, the task ends in error with no further command.
C20_ReappliesLorasAfterModelSet ==
    (ReconcileEnded /\ ModelDiffers)
        => /\ issued # <<>>
           /\ issued[1] = SetModel(issued[1].ok)
           /\ issued[1].ok
                => /\ Len(issued) = 2
                   /\ issued[2].cmd = "set_loras"
                   /\ issued[2].arg = target_loras
           /\ ~issued[1].ok => (Len(issued) = 1 /\ rpc = "failed")

\* C20 witness: the model differed while the LoRA names matched, and both
\* commands were run.
C20_Witness ==
    /\ rpc = "done"
    /\ ~ModelMatch(active_config)
    /\ LoraNamesMatch(active_config)
    /\ target_loras # <<>>
    /\ Len(issued) = 2
    /\ issued[2] = SetLoras(TRUE)

\* C21: when the active model name and version are the desired ones and
\* only the LoRA names differ (as multisets), reconciliation never runs
\* set_model, and by the time it ends it has run set_loras, once, with the
\* desired list.
C21_OnlyLorasReapplied ==
    (/\ active_config.model_name = target_model_name
     /\ active_config.model_version = target_model_version
     /\ ~SameNamesAnyOrder)
        => /\ \A i \in 1..Len(issued) : issued[i].cmd # "set_model"
           /\ ReconcileEnded
                => /\ Len(issued) = 1
                   /\ issued[1].cmd = "set_loras"
                   /\ issued[1].arg = target_loras

\* C21 witness: the model matched, the LoRA names did not, and the task
\* went on to step 4 after set_loras alone.
C21_Witness ==
    /\ rpc = "done"
    /\ ModelMatch(active_config)
    /\ ~SameNamesAnyOrder
    /\ issued = <<SetLoras(TRUE)>>

----------------------------------------------------------------------------
(***************************************************************************)
(* set_loras claims, checked under SpecSetLoras.                           *)
(***************************************************************************)

\* The name being searched and the titles of the cards shown, stripped as
\* at lines 1043 and 1045.
SearchedName == loras[lora_index].name
ShownTitles == [k \in 1..Len(results) |-> Strip(results[k])]

\* Some shown title equals the searched name ignoring case.
HasExactTitle ==
    \E k \in 1..Len(results) : ExactMatch(SearchedName, ShownTitles[k])

\* The card to click has been decided for the searched name.
Decided == slpc = "click"

\* C22 (as claimed): for every desired name and every result list with a
\* title that equals the name ignoring case, the card selected has such a
\* title, whatever the similarity of the other titles.
C22_ExactMatchSelected ==
    (Decided /\ HasExactTitle)
        => ExactMatch(SearchedName, ShownTitles[target_index + 1])

\* The greatest similarity ratio among the shown titles.
HighestRatio ==
    LET ratios == {Similarity(SearchedName, ShownTitles[k]) :
                      k \in 1..Len(results)}
    IN  CHOOSE x \in ratios : \A y \in ratios : ~Greater(y, x)

\* C23: when no shown title equals the name ignoring case, the card with
\* the highest similarity ratio is selected if that ratio exceeds 0.6, and
\* otherwise the first card (index 0) is selected with a warning.
C23_SimilarityAboveThreshold ==
    (Decided /\ ~HasExactTitle)
        => IF Greater(HighestRatio, Threshold)
             THEN /\ Similarity(SearchedName, ShownTitles[target_index + 1])
                        = HighestRatio
                  /\ ~warned
             ELSE target_index = 0 /\ warned

\* C23 witness: "abx" (ratio 0.8) was selected for "Ab" at index 1, after
\* "xb" (ratio 0.5) at index 0.
C23_Witness ==
    /\ Decided
    /\ SearchedName = <<"A", "b">>
    /\ ShownTitles = << <<"x", "b">>, <<"a", "b", "x">> >>
    /\ target_index = 1
    /\ ~warned

\* C24 (as claimed): when a search of set_loras showed no result, the task
\* ends in error: its generation is not submitted and no trigger-word value
\* is stored in the model preset.
C24_ZeroResultsFailTask ==
    no_results
        => /\ slpc \in {"ended", "task_error"}
           /\ ~generation_submitted
           /\ preset_trigger_words = ""

----------------------------------------------------------------------------
(***************************************************************************)
(* Click cascade claims, checked under SpecCascade.                        *)
(***************************************************************************)

\* The place of a strategy in the documented order.
Rank(strategy) == CHOOSE j \in 1..Len(Strategies) : Strategies[j] = strategy

\* C25 (as claimed): the strategies are tried in the order direct click,
\* mouse sequence, debug-protocol events, pointer events, DOM click: one is
\* invoked only after every earlier one was invoked and failed, nothing is
\* invoked after one has succeeded, and with a button to click the cascade
\* gives up only after all five were invoked.
C25_StrategiesInOrder ==
    /\ \A k \in 1..Len(attempts) :
          \A j \in 1..(Rank(attempts[k].strategy) - 1) :
              \E m \in 1..(k - 1) : attempts[m] = Attempt(Strategies[j], FALSE)
    /\ \A k \in 1..(Len(attempts) - 1) : ~attempts[k].ok
    /\ (clicked = "False" /\ candidates > 0)
          => \A j \in 1..Len(Strategies) :
                \E m \in 1..Len(attempts) :
                    attempts[m].strategy = Strategies[j]

\* C26 (as claimed): when the cascade returns True the side effect has
\* been confirmed, so the dialog is visible at that moment.
C26_SuccessIsConfirmed ==
    (cpc = "ended" /\ clicked = "True") => dialog_visible

C28_NoExceptionSurfaced == clicked # "raised"

----------------------------------------------------------------------------
(***************************************************************************)
(* get_active_config claim, checked under SpecConfig.                      *)
(***************************************************************************)

\* C29: every value get_active_config returns, the error value included,
\* lists at most 15 LoRAs, each with a name that is not empty.
C29_AtMostFifteenNamedLoras ==
    gpc = "returned"
        => /\ Len(config.loras) <= LoraLimit
           /\ \A k \in 1..Len(config.loras) : config.loras[k].name # <<>>

\* C29 witness: the page showed more than 15 cards, one of the first 16
\* had no name, and the value returned lists 15.
C29_Witness ==
    /\ gpc = "returned"
    /\ cards_total > LoraLimit + 1
    /\ cards_seen = LoraLimit + 1
    /\ Len(config.loras) = LoraLimit

----------------------------------------------------------------------------
(***************************************************************************)
(* _parse_lora_string claim, checked under SpecParse.                      *)
(***************************************************************************)

\* The comma-separated parts of the entry that are not blank, in order.
GivenParts == LoraParts(lora_str)

\* The text after the last colon of a part with a colon.
AfterLastColon(part) ==
    LET colons == {k \in 1..Len(part) : part[k] = ":"}
        last == CHOOSE k \in colons : \A j \in colons : j <= k
    IN  SubSeq(part, last + 1, Len(part))

\* The part gives a weight: it has a colon and the text after the last
\* one parses as a number.
GivesWeight(part) ==
    /\ \E k \in 1..Len(part) : part[k] = ":"
    /\ IsFloat(AfterLastColon(part))

\* C30: the list has one entry per part that is not blank, in order; an
\* entry has the weight given after the last colon when that text parses
\* as a number, and has none when the weight is left out or does not
\* parse, and then set_loras leaves its weight field alone.
C30_ParseLoraString ==
    /\ ppc \in {"parsed", "applied"}
          => /\ Len(loras_with_weights) = Len(GivenParts)
             /\ \A k \in 1..Len(GivenParts) :
                   IF GivesWeight(GivenParts[k])
                     THEN loras_with_weights[k].weight
                              = Strip(AfterLastColon(GivenParts[k]))
                     ELSE /\ loras_with_weights[k].weight = None
                          /\ loras_with_weights[k].name = GivenParts[k]
    /\ ppc = "applied"
          => weight_fields = {k \in 1..Len(GivenParts) :
                                 GivesWeight(GivenParts[k])}

\* C30 witness: "a:7,a" gave the entries a with weight 7 and a without,
\* and only the first weight field was filled.
C30_Witness ==
    /\ ppc = "applied"
    /\ lora_str = <<"a", ":", "7", ",", "a">>
    /\ loras_with_weights = <<[name |-> <<"a">>, weight |-> <<"7">>],
                              [name |-> <<"a">>, weight |-> None]>>
    /\ weight_fields = {1}

----------------------------------------------------------------------------
(***************************************************************************)
(* Removal claims (SpecRemove).                                            *)
(***************************************************************************)

\* C31: set_loras removes every LoRA active on the page before it opens
\* the LoRA panel, and with an empty desired list it only removes and
\* returns "": once the panel is open, or "" returned, no card that was
\* active at the call is left, and an empty desired list that did not end
\* in an error ended with "" and a panel never opened.
C31_RemovesBeforePanel ==
    /\ panel_opened => page_loras = <<>>
    /\ removal_result = "empty" => page_loras = <<>>
    /\ (loras_empty /\ rmpc = "ended" /\ removal_result # "raised") =>
          removal_result = "empty" /\ ~panel_opened

\* Once the panel is open or "" returned, remove_lora has returned for
\* every name get_active_loras gave.
EveryNameAttempted ==
    (panel_opened \/ removal_result = "empty") =>
        lora_pos = Len(active_lora_names)

\* C32: remove_lora tries the plain click, then the forced click, then the
\* click by script, each only after the one before it failed, and raises
\* only when all three have failed.
C32_ThreeTierRemoval ==
    /\ \A i \in 1..Len(tiers) :
          /\ tiers[i].tier = "plain" => i = 1
          /\ tiers[i].tier = "forced" =>
                i > 1 /\ tiers[i - 1] = Tier("plain", FALSE)
          /\ tiers[i].tier = "dom" =>
                i > 1 /\ tiers[i - 1] = Tier("forced", FALSE)
    /\ remove_raised =>
          tiers = <<Tier("plain", FALSE), Tier("forced", FALSE),
                    Tier("dom", FALSE)>>
----------------------------------------------------------------------------
(***************************************************************************)
(* Weight claims (SpecWeights).                                            *)
(***************************************************************************)

\* The LoRAs the field attempts so far were made for.
Attempted == {field_actions[i].lora : i \in 1..Len(field_actions)}

\* Both the primary lookup and the secondary scan failed for LoRA k.
WeightFailed(k) ==
    \E i \in 1..Len(field_actions) :
        field_actions[i] = FieldAction(k, "secondary", FALSE)

\* C33: a LoRA whose weight could not be set does not end set_loras: the
\* call is never ended by an error of the weight loop, when the loop is
\* over every LoRA with a weight has had its attempt, an end without an
\* error of another step is the return of the trigger words, and a LoRA
\* without a weight has no attempt at any time.
C33_WeightFailureNotFatal ==
    /\ raised_at \in {"none", "confirm", "read"}
    /\ wpc \in {"read", "ended"} /\ raised_at # "confirm" =>
          Attempted = {k \in 1..Len(lora_weights) : lora_weights[k] # "None"}
    /\ wpc = "ended" /\ raised_at = "none" => weights_end = "returned"
    /\ \A k \in Attempted : lora_weights[k] # "None"

\* The trigger words were returned although the weight of the first LoRA
\* could not be set; the second had its attempt, the third has no weight.
C33_Witness ==
    /\ weights_end = "returned"
    /\ lora_weights = <<"0.8", "0.8", "None">>
    /\ WeightFailed(1)
    /\ 2 \in Attempted
    /\ 3 \notin Attempted

----------------------------------------------------------------------------
(***************************************************************************)
(* Further image_gen_macro claims (SpecMacro, SpecMacroFair).              *)
(***************************************************************************)

SeenBeforeSaved(files) ==
    /\ \A t \in Attempts : save_tasks[t].url \in saved_urls
    /\ Len(files) <= Cardinality(saved_urls)
    /\ \A t \in FailedAttempts :
          {t2 \in Attempts : save_tasks[t2].url = save_tasks[t].url} = {t}

\* What C37 says of the idle check: the wait loop counts the seen URLs,
\* saved or not: each poll takes their number, and a poll that finds a
\* seen URL and more than IDLE_WAIT since the last change ends the loop.
PollCountsSeenUrls ==
    (mpc = "wait" /\ polls' = polls + 1)
        => /\ prev_count' = Cardinality(saved_urls)
           /\ (saved_urls # {}
                 /\ (polls' - last_seen') * POLL_SLEEP > IDLE_WAIT)
                => mpc' # "wait"

\* C37 (as claimed): a URL is recorded as seen before its body is fetched
\* and written, so the saved files, all of saved_files, are never more
\* than the seen URLs; a failed URL is not retried and counts for the idle
\* check.
C37_SavedFilesAtMostSeen ==
    /\ [](SeenBeforeSaved(saved_files))
    /\ [][PollCountsSeenUrls]_vars

\* C37 (amended): the same with the saved files being those written from
\* responses; the fallback screenshot, taken when nothing was saved, is
\* not one of them.
C37_ResponseFilesAtMostSeen ==
    /\ [](SeenBeforeSaved(NetworkFiles))
    /\ [][PollCountsSeenUrls]_vars

\* C37 witness: the only URL seen failed to save, was not tried again when
\* it came a second time, and the loop was left on idleness, long before
\* the ceiling, with no file saved.
C37_Witness ==
    /\ mpc \in {"gathering", "fallback"}
    /\ polls * POLL_SLEEP < TOTAL_TIMEOUT
    /\ Cardinality(saved_urls) = 1
    /\ Cardinality(MatchingTasks) = 2
    /\ Cardinality(FailedAttempts) = 1
    /\ AllFinished
    /\ saved_files = <<>>

----------------------------------------------------------------------------
(***************************************************************************)
(* Login check claims (SpecLogin).                                         *)
(***************************************************************************)

\* C35: _is_logged_in never raises; it returns True exactly when the
\* cookies could be read and both user_token and user_token_expire_at are
\* among them, so False with only one of the two and False when the read
\* raised.
C35_BothCookiesOrLoggedOut ==
    /\ lpc # "raised"
    /\ lpc = "returned" =>
          /\ logged_in \in {"True", "False"}
          /\ logged_in = "True" <=>
                /\ ~cookies_failed
                /\ "user_token" \in context_cookies
                /\ "user_token_expire_at" \in context_cookies

\* C35 witness: a context with exactly one of the two cookies (and
\* another cookie) was read and the call returned False.
C35_Witness ==
    /\ lpc = "returned"
    /\ ~cookies_failed
    /\ context_cookies = {"user_token", "locale"}
    /\ logged_in = "False"
----------------------------------------------------------------------------
(***************************************************************************)
(* Start callback claims (SpecRestart).                                    *)
(***************************************************************************)

\* C36: every call of start leads to exactly one invocation of on_done:
\* the callbacks never outnumber the calls, and the n-th call is followed
\* by an n-th callback, the call made right after stop() returned
\* included.
C36_EveryStartCallsOnDone ==
    /\ [](on_done_calls <= start_calls)
    /\ \A n \in 1..MaxStarts :
          (start_calls >= n) ~> (on_done_calls >= n)
----------------------------------------------------------------------------
(***************************************************************************)
(* The inputs of the reconciliation decision (SpecReconcile).              *)
(***************************************************************************)

\* The decision taken at lines 747-765, read off the first command run:
\* "set_model" (then set_loras), "set_loras" alone, or "none".
Decision ==
    IF issued # <<>> THEN issued[1].cmd
    ELSE IF rpc = "done" THEN "none"
    ELSE "undecided"

\* A decision computed from the model names, the model versions and the
\* sorted LoRA names alone; no weight is among its arguments.
DecisionOf(name, version, sorted_names,
           active_name, active_version, active_sorted_names) ==
    IF name # active_name \/ version # active_version THEN "set_model"
    ELSE IF sorted_names # active_sorted_names THEN "set_loras"
    ELSE "none"

\* C38: the decision of reconciliation is a function of the desired and
\* active model name, model version and sorted LoRA names only, so desired
\* LoRA lists that differ only in weights get the same decision and a
\* difference of weights alone runs no command.
C38_DecisionIgnoresWeights ==
    Decision # "undecided" =>
        Decision = DecisionOf(target_model_name, target_model_version,
                              Sorted(Names(target_loras)),
                              active_config.model_name,
                              active_config.model_version,
                              Sorted(Names(active_config.loras)))

\* C38 witness: two desired LoRAs, one with weight 0.8 and one without,
\* are active in the other order with weight 0.7, the model is the
\* desired one, and the task went on without running a command.
C38_Witness ==
    /\ rpc = "done"
    /\ issued = <<>>
    /\ Len(target_loras) = 2
    /\ target_loras[1].weight = "0.8"
    /\ target_loras[2].weight = "None"
    /\ Names(target_loras) # Names(active_config.loras)
    /\ \A i \in 1..Len(active_config.loras) :
          active_config.loras[i].weight = "0.7"
----------------------------------------------------------------------------
(***************************************************************************)
(* Claims on commands called too early (SpecEarlyCalls).                   *)
(***************************************************************************)

\* C39: a command, run_image_macro included, called before start has
\* completed or after start has failed raises to its caller with no
\* coroutine handed to the loop and no change of the manager's state.
C39_EarlyCommandRaises ==
    /\ [](\A c \in Cmds :
             commands[c].caller # "idle" =>
                 /\ commands[c].caller = "raised"
                 /\ commands[c].future = "none"
                 /\ commands[c].task = "none")
    /\ [][commands' # commands => UNCHANGED managerVars]_vars
----------------------------------------------------------------------------
(***************************************************************************)
(* How image_gen_macro ends (SpecMacro).                                   *)
(***************************************************************************)

\* The step in which the call ends.
MacroEnds == mpc # "returned" /\ mpc' = "returned"

\* A call that ends on its error path ends with None, any other with the
\* list saved_files.
EndsWithNoneOrList ==
    IF mpc = "error" THEN result' = "None" ELSE result' = "list"

\* C40 (as claimed): once the listener is registered no exception leaves
\* image_gen_macro: a failure of navigation, filling, submission or
\* waiting ends with None, everything else with a list.
C40_NeverPropagates == [][MacroEnds => EndsWithNoneOrList]_vars

\* C40 (amended): the same unless the task of the call is cancelled, as
\* run_image_macro does on its timeout: then CancelledError leaves the
\* call, after the listener is removed.
C40_PropagatesOnlyCancellation ==
    [][MacroEnds =>
          \/ result' = "cancelled" /\ ~listening'
          \/ EndsWithNoneOrList]_vars

\* C40 witness: the submission failed after a response had come in, and
\* the call returned None to run_image_macro, which returned None.
C40_Witness ==
    /\ mpc = "returned"
    /\ result = "None"
    /\ save_tasks # <<>>
    /\ ~listening
    /\ image_paths.kind = "None"

====
